---- MODULE Spec2Model ----
(***************************************************************************)
(* The virtual file system of src/App.tsx: the file collection, the        *)
(* permission gate, the mutation handlers, the clipboard and the undo/redo *)
(* history, together with the view state the handlers read (current user,  *)
(* selection, the active Finder folder, the open Info window).             *)
(*                                                                         *)
(* Representation.                                                         *)
(*   - A FileSystemItem is a record; `undefined` position / trashData is   *)
(*     the empty tuple, a position is <<x, y>>, trashData is               *)
(*     <<originalParentId, dateTrashed>>.                                  *)
(*   - parentId null is the string "null"; an undefined originalParentId   *)
(*     is the string "undefined" (both falsy in `x || 'root'`).            *)
(*   - A name is a sequence of tokens; "." and " " are tokens of their     *)
(*     own, so lastIndexOf('.'), substring and trim work on positions.     *)
(*   - uuidv4() is a counter of fresh ids; Date.now() is the clock `now`.  *)
(*   - Every handler is one atomic step: React runs one event handler at a *)
(*     time and the functional updaters see the collection the handler     *)
(*     itself read.                                                        *)
(***************************************************************************)
EXTENDS Integers, Sequences, FiniteSets, TLC

\* ------------------------------------------------------------------ bounds
MaxSteps == 3        \* handler calls explored by Spec
HistSteps == 6       \* handler calls explored by SpecHist
TrashSteps == 5      \* handler calls explored by SpecTrash
PasteSteps == 4      \* handler calls explored by SpecPaste
DeleteSteps == 5     \* handler calls explored by SpecDelete
IdSteps == 5         \* handler calls explored by SpecIds
ViewSteps == 4       \* handler calls explored by SpecView
FolderSteps == 4     \* handler calls explored by SpecFolder
UploadSteps == 4     \* handler calls explored by SpecUpload
RestoreSteps == 5    \* handler calls explored by SpecRestore
MoveSteps == 4       \* handler calls explored by SpecMove
CloneSteps == 5      \* handler calls explored by SpecClone
SwapSteps == 4       \* handler calls explored by SpecSwap
ReadSteps == 4       \* handler calls explored by SpecReads
MaxNew == 3          \* ids uuidv4() may hand out
MaxSel == 2          \* items in a multi-selection
UploadTicks == 2     \* timer ticks an upload takes (20 in the source)

\* ------------------------------------------------------- program constants
TRASH_ID == "trash"
ROOT == "root"
NULL == "null"
UNDEF == "undefined"
ADMIN == "ADMIN"
USER == "USER"
JUNIOR == "JUNIOR"
NOBODY == "none"
FOLDER == "FOLDER"
TEXT == "TEXT"
ARCHIVE == "ARCHIVE"
UNKNOWN == "UNKNOWN"
NoPos == <<>>
NoTrash == <<>>
Roles == {ADMIN, USER, JUNIOR}
VISIBLE_ALL == {USER, JUNIOR}
VISIBLE_NONE == {}
TagView == "tag:red"

\* The part of INITIAL_FILES the model keeps: the root folder, a folder on the
\* desktop, a folder and a file inside it, and an administrator-only file.
INITIAL_FILES ==
  << [id |-> "root", parentId |-> NULL, name |-> <<"UR", " ", "System">>, type |-> FOLDER,
      dateModified |-> 0, order |-> 0, position |-> NoPos, trashData |-> NoTrash,
      visibleTo |-> VISIBLE_ALL, tags |-> {}],
     [id |-> "docs", parentId |-> "root", name |-> <<"Documents">>, type |-> FOLDER,
      dateModified |-> 0, order |-> 1, position |-> NoPos, trashData |-> NoTrash,
      visibleTo |-> VISIBLE_ALL, tags |-> {"blue"}],
     [id |-> "proj", parentId |-> "docs", name |-> <<"Project", " ", "Alpha">>, type |-> FOLDER,
      dateModified |-> 0, order |-> 0, position |-> NoPos, trashData |-> NoTrash,
      visibleTo |-> VISIBLE_ALL, tags |-> {"red"}],
     [id |-> "note1", parentId |-> "docs", name |-> <<"Meeting", " ", "Notes", ".", "txt">>, type |-> TEXT,
      dateModified |-> 0, order |-> 1, position |-> NoPos, trashData |-> NoTrash,
      visibleTo |-> VISIBLE_ALL, tags |-> {}],
     [id |-> "arch1", parentId |-> "root", name |-> <<"Backup", ".", "zip">>, type |-> ARCHIVE,
      dateModified |-> 0, order |-> 5, position |-> NoPos, trashData |-> NoTrash,
      visibleTo |-> VISIBLE_NONE, tags |-> {}] >>

\* ------------------------------------------------------------ array helpers
Range(s) == {s[i] : i \in DOMAIN s}

Ids(fs) == {fs[i].id : i \in DOMAIN fs}

\* Array.prototype.findIndex, 1-based; 0 when nothing matches.
FindIdx(fs, id) ==
  IF \E i \in DOMAIN fs : fs[i].id = id
    THEN CHOOSE i \in DOMAIN fs : fs[i].id = id /\ \A j \in 1..(i - 1) : fs[j].id # id
    ELSE 0

Has(fs, id) == FindIdx(fs, id) # 0

\* files.find(f => f.id === id); only used where Has(fs, id).
Find(fs, id) == fs[FindIdx(fs, id)]

Front(s) == SubSeq(s, 1, Len(s) - 1)

Last(s) == s[Len(s)]

Includes(ids, id) == \E i \in DOMAIN ids : ids[i] = id

\* x || 'root'
OrRoot(x) == IF x = NULL \/ x = UNDEF \/ x = "" THEN ROOT ELSE x

\* f.trashData?.originalParentId || 'root'
RestoreParent(f) == IF f.trashData = NoTrash THEN ROOT ELSE OrRoot(f.trashData[1])

\* A maximum that takes every folder for empty.
MaxOrderIn_Empty(fs, folderId) == 0

\* Math.max(...items.map(f => f.order)) over the children of a folder, 0 if none.
MaxOrderIn(fs, folderId) ==
  LET orders == {fs[i].order : i \in {j \in DOMAIN fs : fs[j].parentId = folderId}}
  IN  IF orders = {} THEN 0 ELSE CHOOSE m \in orders : \A o \in orders : o <= m

\* A generator that hands out the same id every time.
FreshId_Same(k) == "n1"

FreshId(k) == "n" \o ToString(k)


\* ------------------------------------------------------------------- state
VARIABLES
  files,            \* useState<FileSystemItem[]>(INITIAL_FILES)
  undoStack,        \* useState<HistoryAction[]>([])
  redoStack,        \* useState<HistoryAction[]>([])
  clipboard,        \* the copied ids, <<>> when the clipboard is null
  selectedFileIds,  \* useState<string[]>([])
  currentUser,      \* the role of the logged-in user, NOBODY when null
  currentFolderId,  \* data.currentFolderId of the active Finder window
  infoId,           \* the id shown by the open Info window, NOBODY when none
  now,              \* Date.now(); the items of INITIAL_FILES are dated 0
  nextId,           \* how many ids uuidv4() has handed out
  uploads,          \* the running upload timers
  hung,             \* a handler entered a loop that never ends
  lastOp,           \* history variable: the last command and its arguments
  pre,              \* history variable: collection and stacks before lastOp
  hist,             \* history variable: snapshots of the current run of commits
  budget            \* handler calls left to explore

data == <<files, undoStack, redoStack>>
view == <<selectedFileIds, currentUser, currentFolderId, infoId>>
ghost == <<lastOp, pre, hist, budget>>
vars == <<files, undoStack, redoStack, clipboard, selectedFileIds, currentUser,
          currentFolderId, infoId, now, nextId, uploads, hung, lastOp, pre, hist, budget>>

\* --------------------------------------------------------- permission gate
\* A gate that lets every logged-in user through.
hasPermission_Open(user, item) ==
  user # NOBODY

\* An evaluator with no special case for the administrator.
isFileVisible_NoAdmin(user, item) ==
  user # NOBODY /\ user \in item.visibleTo

isFileVisible(user, item) ==
  IF user = NOBODY THEN FALSE
  ELSE IF user = ADMIN THEN TRUE
  ELSE user \in item.visibleTo

\* A gate that only the administrator passes.
hasPermission_AdminOnly(user, item) ==
  user = ADMIN

hasPermission(user, item) == isFileVisible(user, item)

\* A filter that hands every item on.
visibleFiles_All == files

\* visibleFiles: what the desktop and the Finder windows are given.
visibleFiles == SelectSeq(files, LAMBDA f : isFileVisible(currentUser, f))

\* filtered.sort((a, b) => a.order - b.order): a stable sort on `order`.
RECURSIVE InsertByOrder(_, _)
InsertByOrder(sorted, f) ==
  IF sorted = <<>> THEN <<f>>
  ELSE IF Last(sorted).order <= f.order THEN Append(sorted, f)
  ELSE Append(InsertByOrder(Front(sorted), f), Last(sorted))

RECURSIVE SortByOrder(_)
SortByOrder(s) ==
  IF s = <<>> THEN <<>> ELSE InsertByOrder(SortByOrder(Front(s)), Last(s))

\* currentFolderItems of a Finder window on `folderId`, given `items`, with
\* no search text and the default sort.
currentFolderItems(items, folderId) ==
  SortByOrder(IF folderId = TagView
              THEN SelectSeq(items, LAMBDA item : "red" \in item.tags)
              ELSE SelectSeq(items, LAMBDA item : item.parentId = folderId))

\* An icon or row of the item is on screen: on the desktop (desktopIcons), in the
\* folder of the active Finder window, or in its tag view (currentFolderItems).
Listed(f) ==
  /\ isFileVisible(currentUser, f)
  /\ \/ f.parentId = ROOT /\ f.id # ROOT
     \/ f.parentId = currentFolderId
     \/ currentFolderId = TagView /\ "red" \in f.tags

ListedIds == {files[i].id : i \in {j \in DOMAIN files : Listed(files[j])}}

FolderIds == {files[i].id : i \in {j \in DOMAIN files : files[j].type = FOLDER}}

\* ------------------------------------------------------- history variables
Snapshot ==
  [files |-> files, undoStack |-> undoStack, redoStack |-> redoStack, uploads |-> uploads]

NoOp ==
  [op |-> "init", outcome |-> "ok", user |-> NOBODY, id |-> "", ids |-> <<>>, target |-> "",
   arg |-> <<>>]

\* `arg` is the new name of a rename and the position of a move, <<>> otherwise.
Op(op, outcome, id, ids, target, arg) ==
  [op |-> op, outcome |-> outcome, user |-> currentUser, id |-> id, ids |-> ids, target |-> target,
   arg |-> arg]

HistNone == [phase |-> "none", snaps |-> <<>>, ops |-> <<>>, post |-> <<>>, k |-> 0, j |-> 0]

HistOff == [HistNone EXCEPT !.phase = "off"]

\* The run of commits since the last step that was no commit (snaps[i] is the
\* collection before the i-th of them and ops[i] the command), then the undos
\* that follow it (k of them, post is the collection before the first) and the
\* redos after those. A step that changes nothing leaves the run as it is; the
\* phase "none" keeps no run at all.
HistNext(o, nf, nu, nr) ==
  IF hist.phase = "none" THEN hist
  ELSE IF nf = files /\ nu = undoStack /\ nr = redoStack THEN hist
  ELSE IF o.op = "undo" THEN
    IF hist.phase = "cmd"
      THEN [hist EXCEPT !.phase = "undo", !.post = files, !.k = 1]
    ELSE IF hist.phase = "undo" /\ hist.k < Len(hist.snaps)
      THEN [hist EXCEPT !.k = hist.k + 1]
    ELSE HistOff
  ELSE IF o.op = "redo" THEN
    IF hist.phase = "undo"
      THEN [hist EXCEPT !.phase = "redo", !.j = 1]
    ELSE IF hist.phase = "redo" /\ hist.j < hist.k
      THEN [hist EXCEPT !.j = hist.j + 1]
    ELSE HistOff
  ELSE IF Len(nu) = Len(undoStack) + 1 /\ SubSeq(nu, 1, Len(undoStack)) = undoStack THEN
    IF hist.phase = "cmd"
      THEN [hist EXCEPT !.snaps = Append(hist.snaps, files), !.ops = Append(hist.ops, o)]
      ELSE [HistNone EXCEPT !.phase = "cmd", !.snaps = <<files>>, !.ops = <<o>>]
  ELSE HistOff

\* The result of a handler: what it leaves in the collection and the stacks.
Result(outcome, nf, nu, nr) ==
  [outcome |-> outcome, files |-> nf, undoStack |-> nu, redoStack |-> nr, clearSel |-> FALSE]

Unchanged(outcome) == Result(outcome, files, undoStack, redoStack)

\* A commit that keeps the redo stack.
commitAction_KeepRedo(nf, action) ==
  Result("ok", nf, Append(undoStack, action), redoStack)

\* commitAction: push on the undo stack, clear the redo stack.
commitAction(nf, action) ==
  Result("ok", nf, Append(undoStack, action), <<>>)

\* One handler call: the new collection and stacks, and the history variables.
ApplyWith(op, r, id, ids, target, arg) ==
  /\ files' = r.files
  /\ undoStack' = r.undoStack
  /\ redoStack' = r.redoStack
  /\ lastOp' = Op(op, r.outcome, id, ids, target, arg)
  /\ pre' = Snapshot
  /\ hist' = HistNext(Op(op, r.outcome, id, ids, target, arg), r.files, r.undoStack, r.redoStack)
  /\ budget' = budget - 1

Apply(op, r, id, ids, target) == ApplyWith(op, r, id, ids, target, <<>>)

CanStep == ~hung /\ budget > 0
LoggedIn == currentUser # NOBODY

InitCommon ==
  /\ files = INITIAL_FILES
  /\ undoStack = <<>>
  /\ redoStack = <<>>
  /\ clipboard = <<>>
  /\ selectedFileIds = <<>>
  /\ currentUser = NOBODY
  /\ currentFolderId = ROOT
  /\ infoId = NOBODY
  /\ now = 1
  /\ nextId = 0
  /\ uploads = <<>>
  /\ hung = FALSE
  /\ lastOp = NoOp
  /\ pre = [files |-> INITIAL_FILES, undoStack |-> <<>>, redoStack |-> <<>>, uploads |-> <<>>]

\* ------------------------------------------------------------ view actions
\* LoginScreen onLogin={setCurrentUser}
LoginAs(r) ==
  /\ ~hung /\ currentUser = NOBODY
  /\ currentUser' = r
  /\ UNCHANGED <<data, clipboard, selectedFileIds, currentFolderId, infoId, now, nextId, uploads, hung, ghost>>

Login == \E r \in Roles : LoginAs(r)

\* MenuBar onRestart={() => setCurrentUser(null)}
Logout ==
  /\ ~hung /\ LoggedIn
  /\ currentUser' = NOBODY
  /\ UNCHANGED <<data, clipboard, selectedFileIds, currentFolderId, infoId, now, nextId, uploads, hung, ghost>>

\* FinderWindow onNavigate, and handleOpenFile of a folder.
Navigate ==
  /\ CanStep /\ LoggedIn
  /\ \E fid \in {ROOT, TRASH_ID, TagView} \cup FolderIds :
       /\ fid \in {ROOT, TRASH_ID, TagView}
            \/ (Has(files, fid) /\ hasPermission(currentUser, Find(files, fid)))
       /\ fid # currentFolderId
       /\ currentFolderId' = fid
  /\ budget' = budget - 1
  /\ UNCHANGED <<data, clipboard, selectedFileIds, currentUser, infoId, now, nextId, uploads, hung,
                 lastOp, pre, hist>>

\* ---------------------------------------------------------------- history
MapFiles(fs, F(_)) == [i \in DOMAIN fs |-> F(fs[i])]

\* payload.items.find(i => i.id === f.id) of a MOVE record; 0 when none.
MovedIdx(items, id) ==
  IF \E i \in DOMAIN items : items[i].id = id
    THEN CHOOSE i \in DOMAIN items : items[i].id = id /\ \A j \in 1..(i - 1) : items[j].id # id
    ELSE 0

\* newFiles[sIdx] = {...order}; newFiles[tIdx] = {...order} of the SWAP cases.
SetOrders(fs, sourceId, sourceOrder, targetId, targetOrder) ==
  LET sIdx == FindIdx(fs, sourceId)
      tIdx == FindIdx(fs, targetId)
      one == IF sIdx > 0 THEN [fs EXCEPT ![sIdx].order = sourceOrder] ELSE fs
  IN  IF tIdx > 0 THEN [one EXCEPT ![tIdx].order = targetOrder] ELSE one

\* The switch of performUndo: the collection after reversing `a`.
UndoFiles(fs, a, t) ==
  CASE a.type = "RENAME" ->
         MapFiles(fs, LAMBDA f : IF f.id = a.id THEN [f EXCEPT !.name = a.oldName] ELSE f)
    [] a.type = "MOVE" ->
         MapFiles(fs, LAMBDA f :
           LET m == MovedIdx(a.items, f.id)
           IN  IF m # 0
                 THEN [f EXCEPT !.parentId = a.items[m].oldParentId,
                                !.order = a.items[m].oldOrder,
                                !.position = a.items[m].oldPosition]
                 ELSE f)
    [] a.type = "TRASH" ->
         MapFiles(fs, LAMBDA f :
           IF Includes(a.ids, f.id)
             THEN [f EXCEPT !.parentId = RestoreParent(f), !.trashData = NoTrash]
             ELSE f)
    [] a.type = "RESTORE" ->
         \* action.payload.originalParentId is not a field of the RESTORE payload
         MapFiles(fs, LAMBDA f :
           IF Includes(a.ids, f.id)
             THEN [f EXCEPT !.parentId = TRASH_ID, !.trashData = <<UNDEF, t>>]
             ELSE f)
    [] a.type = "REPOSITION" ->
         MapFiles(fs, LAMBDA f : IF f.id = a.id THEN [f EXCEPT !.position = a.oldPosition] ELSE f)
    [] a.type = "SWAP" -> SetOrders(fs, a.sourceId, a.sourceOldOrder, a.targetId, a.targetOldOrder)
    [] a.type = "DELETE" -> fs \o a.files
    [] a.type = "CREATE" -> SelectSeq(fs, LAMBDA f : f.id # a.id)
    [] a.type = "PASTE" -> SelectSeq(fs, LAMBDA f : f.id \notin Ids(a.newItems))

\* The switch of performRedo: the collection after replaying `a`.
RedoFiles(fs, a, t) ==
  CASE a.type = "RENAME" ->
         MapFiles(fs, LAMBDA f : IF f.id = a.id THEN [f EXCEPT !.name = a.newName] ELSE f)
    [] a.type = "MOVE" ->
         MapFiles(fs, LAMBDA f :
           LET m == MovedIdx(a.items, f.id)
           IN  IF m # 0
                 THEN [f EXCEPT !.parentId = a.items[m].newParentId,
                                !.order = a.items[m].newOrder,
                                !.position = a.items[m].newPosition]
                 ELSE f)
    [] a.type = "TRASH" ->
         MapFiles(fs, LAMBDA f :
           IF Includes(a.ids, f.id)
             THEN [f EXCEPT !.parentId = TRASH_ID, !.trashData = <<f.parentId, t>>]
             ELSE f)
    [] a.type = "RESTORE" ->
         MapFiles(fs, LAMBDA f :
           IF Includes(a.ids, f.id)
             THEN [f EXCEPT !.parentId = RestoreParent(f), !.trashData = NoTrash]
             ELSE f)
    [] a.type = "REPOSITION" ->
         MapFiles(fs, LAMBDA f : IF f.id = a.id THEN [f EXCEPT !.position = a.newPosition] ELSE f)
    [] a.type = "SWAP" -> SetOrders(fs, a.sourceId, a.sourceNewOrder, a.targetId, a.targetNewOrder)
    [] a.type = "DELETE" -> SelectSeq(fs, LAMBDA f : f.id \notin Ids(a.files))
    [] a.type = "CREATE" -> Append(fs, a.item)
    [] a.type = "PASTE" -> fs \o a.newItems

\* An undo that forgets the action it reversed.
performUndo_DropAction ==
  IF undoStack = <<>> THEN Unchanged("noop")
  ELSE Result("ok", UndoFiles(files, undoStack[Len(undoStack)], now),
              SubSeq(undoStack, 1, Len(undoStack) - 1), redoStack)

performUndo ==
  IF undoStack = <<>> THEN Unchanged("noop")
  ELSE LET action == undoStack[Len(undoStack)]
       IN  Result("ok", UndoFiles(files, action, now),
                  SubSeq(undoStack, 1, Len(undoStack) - 1), Append(redoStack, action))

performRedo ==
  IF redoStack = <<>> THEN Unchanged("noop")
  ELSE LET action == redoStack[Len(redoStack)]
       IN  Result("ok", RedoFiles(files, action, now),
                  Append(undoStack, action), SubSeq(redoStack, 1, Len(redoStack) - 1))

\* ----------------------------------------------------------------- rename
\* String.prototype.trim on a name: drop the leading and trailing " " tokens.
RECURSIVE TrimLeft(_)
TrimLeft(n) == IF n # <<>> /\ Head(n) = " " THEN TrimLeft(Tail(n)) ELSE n

RECURSIVE TrimRight(_)
TrimRight(n) ==
  IF n # <<>> /\ n[Len(n)] = " " THEN TrimRight(SubSeq(n, 1, Len(n) - 1)) ELSE n

Trim(n) == TrimRight(TrimLeft(n))

\* A rename that does not compare the new name with the current one.
handleRenameConfirm_NoCompare(id, newName) ==
  IF ~Has(files, id) THEN Unchanged("missing")
  ELSE LET file == Find(files, id) IN
    IF file.parentId = TRASH_ID THEN Unchanged("invalid")
    ELSE IF ~hasPermission(currentUser, file) THEN Unchanged("denied")
    ELSE IF Trim(newName) # <<>> THEN
      commitAction(
        MapFiles(files, LAMBDA f :
          IF f.id = id THEN [f EXCEPT !.name = Trim(newName), !.dateModified = now] ELSE f),
        [type |-> "RENAME", id |-> id, oldName |-> file.name, newName |-> Trim(newName)])
    ELSE Unchanged("noop")

\* A rename that stores the name as typed, blanks around it included.
handleRenameConfirm_NoTrim(id, newName) ==
  IF ~Has(files, id) THEN Unchanged("missing")
  ELSE LET file == Find(files, id) IN
    IF file.parentId = TRASH_ID THEN Unchanged("invalid")
    ELSE IF ~hasPermission(currentUser, file) THEN Unchanged("denied")
    ELSE IF Trim(newName) # <<>> /\ file.name # Trim(newName) THEN
      commitAction(
        MapFiles(files, LAMBDA f :
          IF f.id = id THEN [f EXCEPT !.name = newName, !.dateModified = now] ELSE f),
        [type |-> "RENAME", id |-> id, oldName |-> file.name, newName |-> newName])
    ELSE Unchanged("noop")

handleRenameConfirm(id, newName) ==
  IF ~Has(files, id) THEN Unchanged("missing")
  ELSE LET file == Find(files, id) IN
    IF file.parentId = TRASH_ID THEN Unchanged("invalid")
    ELSE IF ~hasPermission(currentUser, file) THEN Unchanged("denied")
    ELSE IF Trim(newName) # <<>> /\ file.name # Trim(newName) THEN
      commitAction(
        MapFiles(files, LAMBDA f :
          IF f.id = id THEN [f EXCEPT !.name = Trim(newName), !.dateModified = now] ELSE f),
        [type |-> "RENAME", id |-> id, oldName |-> file.name, newName |-> Trim(newName)])
    ELSE Unchanged("noop")

\* A trash update that leaves the desktop position on the item.
TrashUpdate_KeepPosition(itemIds) ==
  [commitAction(
     MapFiles(files, LAMBDA f :
       IF Includes(itemIds, f.id)
         THEN [f EXCEPT !.parentId = TRASH_ID, !.trashData = <<f.parentId, now>>]
         ELSE f),
     [type |-> "TRASH", ids |-> itemIds]) EXCEPT !.clearSel = TRUE]

\* ------------------------------------------------------------------ trash
\* The update and the TRASH record of handleMoveToTrash once the gate has passed.
TrashUpdate(itemIds) ==
  [commitAction(
     MapFiles(files, LAMBDA f :
       IF Includes(itemIds, f.id)
         THEN [f EXCEPT !.parentId = TRASH_ID, !.position = NoPos,
                        !.trashData = <<f.parentId, now>>]
         ELSE f),
     [type |-> "TRASH", ids |-> itemIds]) EXCEPT !.clearSel = TRUE]

\* A move-to-trash that skips the items the actor may not touch and trashes
\* the rest.
handleMoveToTrash_Partial(itemIds) ==
  LET allowed == SelectSeq(itemIds, LAMBDA id :
                   \A i \in DOMAIN files : files[i].id = id => hasPermission(currentUser, files[i]))
  IN  IF allowed = <<>> THEN Unchanged("denied") ELSE TrashUpdate(allowed)

handleMoveToTrash(itemIds) ==
  IF \E i \in DOMAIN files :
       Includes(itemIds, files[i].id) /\ ~hasPermission(currentUser, files[i])
    THEN Unchanged("denied")
    ELSE TrashUpdate(itemIds)

handleRestoreFile(itemIds) ==
  [commitAction(
     MapFiles(files, LAMBDA f :
       IF Includes(itemIds, f.id)
         THEN [f EXCEPT !.parentId = RestoreParent(f), !.trashData = NoTrash]
         ELSE f),
     [type |-> "RESTORE", ids |-> itemIds]) EXCEPT !.clearSel = TRUE]

\* A delete whose record keeps the items without their trash metadata.
handlePermanentDelete_NoTrashData(itemIds) ==
  [commitAction(
     SelectSeq(files, LAMBDA f : ~Includes(itemIds, f.id)),
     [type |-> "DELETE",
      files |-> MapFiles(SelectSeq(files, LAMBDA f : Includes(itemIds, f.id)),
                         LAMBDA f : [f EXCEPT !.trashData = NoTrash])])
   EXCEPT !.clearSel = TRUE]

handlePermanentDelete(itemIds) ==
  [commitAction(
     SelectSeq(files, LAMBDA f : ~Includes(itemIds, f.id)),
     [type |-> "DELETE", files |-> SelectSeq(files, LAMBDA f : Includes(itemIds, f.id))])
   EXCEPT !.clearSel = TRUE]

\* trashFiles.map(f => f.id)
TrashIds ==
  LET trashFiles == SelectSeq(files, LAMBDA f : f.parentId = TRASH_ID)
  IN  [i \in DOMAIN trashFiles |-> trashFiles[i].id]

handleEmptyTrash ==
  IF TrashIds = <<>> THEN Unchanged("noop") ELSE handlePermanentDelete(TrashIds)

\* ------------------------------------------------------ reposition, swap
handleReposition(id, newPosition) ==
  IF ~Has(files, id) THEN Unchanged("missing")
  ELSE LET file == Find(files, id) IN
    IF ~hasPermission(currentUser, file) THEN Unchanged("denied")
    ELSE commitAction(
           MapFiles(files, LAMBDA f : IF f.id = id THEN [f EXCEPT !.position = newPosition] ELSE f),
           [type |-> "REPOSITION", id |-> id, oldPosition |-> file.position,
            newPosition |-> newPosition])

\* A swap that gives the source the order of the target and leaves the target.
handleSwapFile_OneSided(sourceId, targetId) ==
  IF ~Has(files, sourceId) \/ ~Has(files, targetId) THEN Unchanged("missing")
  ELSE LET sourceFile == Find(files, sourceId)
           targetFile == Find(files, targetId) IN
    IF ~hasPermission(currentUser, sourceFile) \/ ~hasPermission(currentUser, targetFile)
      THEN Unchanged("denied")
    ELSE commitAction(
           MapFiles(files, LAMBDA f :
             IF f.id = sourceId THEN [f EXCEPT !.order = targetFile.order] ELSE f),
           [type |-> "SWAP", sourceId |-> sourceId, targetId |-> targetId,
            sourceOldOrder |-> sourceFile.order, targetOldOrder |-> targetFile.order,
            sourceNewOrder |-> targetFile.order, targetNewOrder |-> sourceFile.order])

handleSwapFile(sourceId, targetId) ==
  IF ~Has(files, sourceId) \/ ~Has(files, targetId) THEN Unchanged("missing")
  ELSE LET sourceFile == Find(files, sourceId)
           targetFile == Find(files, targetId) IN
    IF ~hasPermission(currentUser, sourceFile) \/ ~hasPermission(currentUser, targetFile)
      THEN Unchanged("denied")
    ELSE commitAction(
           MapFiles(files, LAMBDA f :
             IF f.id = sourceId THEN [f EXCEPT !.order = targetFile.order]
             ELSE IF f.id = targetId THEN [f EXCEPT !.order = sourceFile.order]
             ELSE f),
           [type |-> "SWAP", sourceId |-> sourceId, targetId |-> targetId,
            sourceOldOrder |-> sourceFile.order, targetOldOrder |-> targetFile.order,
            sourceNewOrder |-> targetFile.order, targetNewOrder |-> sourceFile.order])

\* ------------------------------------------------------------------- move
\* The loop `while (current) { if (current.id === sourceId) return; ... }` started
\* at `id`: "hit" when it meets the source, "clear" when it runs off the top,
\* "loop" when it still runs after visiting more items than the collection has.
RECURSIVE AncestorWalk(_, _, _, _)
AncestorWalk(fs, id, sourceId, fuel) ==
  IF ~Has(fs, id) THEN "clear"
  ELSE LET current == Find(fs, id) IN
    IF current.id = sourceId THEN "hit"
    ELSE IF current.parentId = NULL \/ current.parentId = "" THEN "clear"
    ELSE IF fuel = 0 THEN "loop"
    ELSE AncestorWalk(fs, current.parentId, sourceId, fuel - 1)

\* A guard that looks at the destination only, not at its ancestors.
CycleGuard_SelfOnly(sourceId, targetFolderId) ==
  IF Has(files, targetFolderId) /\ targetFolderId = sourceId THEN "hit" ELSE "clear"

CycleGuard(sourceId, targetFolderId) ==
  AncestorWalk(files, targetFolderId, sourceId, Len(files))

\* prev.map(f => ...) of handleMoveFile, item by item from index i on: the new
\* collection and movedItemsPayload.
RECURSIVE MoveMap(_, _, _, _, _, _, _)
MoveMap(prev, idsToMove, targetFolderId, newPosition, i, maxOrder, acc) ==
  IF i > Len(prev) THEN acc
  ELSE LET f == prev[i] IN
    IF Includes(idsToMove, f.id) /\ ~(f.parentId = targetFolderId /\ newPosition = NoPos)
      THEN MoveMap(prev, idsToMove, targetFolderId, newPosition, i + 1, maxOrder + 1,
             [files |-> Append(acc.files,
                          [f EXCEPT !.parentId = targetFolderId, !.dateModified = now,
                                    !.order = maxOrder + 1, !.position = newPosition]),
              items |-> Append(acc.items,
                          [id |-> f.id, oldParentId |-> f.parentId, oldOrder |-> f.order,
                           oldPosition |-> f.position, newParentId |-> targetFolderId,
                           newOrder |-> maxOrder + 1, newPosition |-> newPosition])])
      ELSE MoveMap(prev, idsToMove, targetFolderId, newPosition, i + 1, maxOrder,
             [files |-> Append(acc.files, f), items |-> acc.items])

\* selectedFileIds.includes(sourceId) ? [...new Set([...selectedFileIds, sourceId])] : [sourceId]
IdsToMove(sourceId) ==
  IF Includes(selectedFileIds, sourceId) THEN selectedFileIds ELSE <<sourceId>>

handleMoveFile(sourceId, targetFolderId, newPosition) ==
  IF sourceId = targetFolderId THEN Unchanged("invalid")
  ELSE IF Has(files, sourceId) /\ ~hasPermission(currentUser, Find(files, sourceId))
    THEN Unchanged("denied")
  ELSE IF targetFolderId = TRASH_ID THEN handleMoveToTrash(<<sourceId>>)
  ELSE IF targetFolderId # ROOT /\ Has(files, targetFolderId)
          /\ ~hasPermission(currentUser, Find(files, targetFolderId))
    THEN Unchanged("denied")
  ELSE IF CycleGuard(sourceId, targetFolderId) = "hit" THEN Unchanged("invalid")
  ELSE IF CycleGuard(sourceId, targetFolderId) = "loop" THEN Unchanged("hang")
  ELSE LET m == MoveMap(files, IdsToMove(sourceId), targetFolderId, newPosition, 1,
                        MaxOrderIn(files, targetFolderId), [files |-> <<>>, items |-> <<>>])
       IN  IF m.items # <<>>
             THEN commitAction(m.files, [type |-> "MOVE", items |-> m.items])
             ELSE Unchanged("noop")

\* ------------------------------------------------------------- new folder
IsTagView(folderId) == folderId = TagView

SiblingNames(fs, parentId) ==
  {fs[i].name : i \in {j \in DOMAIN fs : fs[j].parentId = parentId}}

\* A folder name that is not checked against the siblings.
UntitledName_NoCheck(taken, finalName, counter) == finalName

\* while (siblings.some(f => f.name === finalName)) { finalName = `${baseName} ${counter}`; counter++ }
RECURSIVE UntitledName(_, _, _)
UntitledName(taken, finalName, counter) ==
  IF finalName \in taken
    THEN UntitledName(taken, <<"Untitled", " ", "Folder", " ", ToString(counter)>>, counter + 1)
    ELSE finalName

NewFolderItem(targetParentId) ==
  [id |-> FreshId(nextId + 1), parentId |-> targetParentId,
   name |-> UntitledName(SiblingNames(files, targetParentId), <<"Untitled", " ", "Folder">>, 2),
   type |-> FOLDER, dateModified |-> now, order |-> 1000,
   position |-> IF targetParentId = ROOT THEN <<200, 200>> ELSE NoPos,
   trashData |-> NoTrash, visibleTo |-> {USER, JUNIOR}, tags |-> {}]

\* Destination checks without the refusal of tag views.
DestinationCheck_NoTagCheck(targetFolderId) ==
  IF targetFolderId = TRASH_ID THEN "invalid"
  ELSE IF targetFolderId # ROOT /\ Has(files, targetFolderId)
          /\ ~hasPermission(currentUser, Find(files, targetFolderId)) THEN "denied"
  ELSE "ok"

\* The destination checks shared by handleNewFolderAction and handlePaste.
DestinationCheck(targetFolderId) ==
  IF targetFolderId = TRASH_ID THEN "invalid"
  ELSE IF IsTagView(targetFolderId) THEN "invalid"
  ELSE IF targetFolderId # ROOT /\ Has(files, targetFolderId)
          /\ ~hasPermission(currentUser, Find(files, targetFolderId)) THEN "denied"
  ELSE "ok"

handleNewFolderAction(targetParentId) ==
  IF DestinationCheck(targetParentId) # "ok" THEN Unchanged(DestinationCheck(targetParentId))
  ELSE LET newFolder == NewFolderItem(targetParentId)
       IN  commitAction(Append(files, newFolder),
                        [type |-> "CREATE", id |-> newFolder.id, item |-> newFolder])

\* ------------------------------------------------------------- copy, paste
\* item.name.lastIndexOf('.'), 1-based; 0 when the name has no '.'.
LastDot(name) ==
  IF \E i \in DOMAIN name : name[i] = "."
    THEN CHOOSE i \in DOMAIN name : name[i] = "." /\ \A j \in (i + 1)..Len(name) : name[j] # "."
    ELSE 0

\* A suffix that numbers the first copy too.
CopySuffix_CountFromOne(counter) == <<" ", "copy", " ", ToString(counter)>>

\* `${namePart} copy${counter > 1 ? ` ${counter}` : ''}${extPart}`

CopySuffix(counter) ==
  IF counter > 1 THEN <<" ", "copy", " ", ToString(counter)>> ELSE <<" ", "copy">>

CopyName(name, counter) ==
  IF LastDot(name) > 1
    THEN SubSeq(name, 1, LastDot(name) - 1) \o CopySuffix(counter)
           \o SubSeq(name, LastDot(name), Len(name))
    ELSE name \o CopySuffix(counter)

\* while (siblings.some(f => f.name === candidateName)) { candidateName = ...; counter++ }
RECURSIVE PasteName(_, _, _, _)
PasteName(taken, name, candidateName, counter) ==
  IF candidateName \in taken
    THEN PasteName(taken, name, CopyName(name, counter), counter + 1)
    ELSE candidateName

\* The ids of files.filter(f => f.parentId === itemId), in array order.
ChildIds(fs, itemId) ==
  LET children == SelectSeq(fs, LAMBDA f : f.parentId = itemId)
  IN  [i \in DOMAIN children |-> children[i].id]

\* A copy that clones the item and nothing below it.
copyItemRecursively_Shallow(itemId, newParentId, isRootOfCopy, nid, fuel) ==
  IF ~Has(files, itemId) THEN <<>>
  ELSE LET item == Find(files, itemId)
       IN  << [item EXCEPT !.id = FreshId(nid + 1), !.parentId = newParentId,
                           !.name = IF isRootOfCopy
                                      THEN PasteName(SiblingNames(files, newParentId),
                                                     item.name, item.name, 1)
                                      ELSE item.name,
                           !.dateModified = now, !.position = NoPos,
                           !.trashData = NoTrash] >>

\* copyItemRecursively: the clones of the item and of what is below it, the
\* k-th clone taking the id FreshId(nid + k). `fuel` cuts a recursion that a
\* parentId cycle would never end (see CopyOverflows).
RECURSIVE copyItemRecursively(_, _, _, _, _)
RECURSIVE CopyChildren(_, _, _, _)
copyItemRecursively(itemId, newParentId, isRootOfCopy, nid, fuel) ==
  IF ~Has(files, itemId) \/ fuel = 0 THEN <<>>
  ELSE LET item == Find(files, itemId)
           newId == FreshId(nid + 1)
           newName == IF isRootOfCopy
                        THEN PasteName(SiblingNames(files, newParentId), item.name, item.name, 1)
                        ELSE item.name
           newPosition == IF newParentId = ROOT /\ item.position # NoPos
                            THEN <<item.position[1] + 20, item.position[2] + 20>>
                            ELSE NoPos
           newItem == [item EXCEPT !.id = newId, !.parentId = newParentId, !.name = newName,
                                   !.dateModified = now, !.position = newPosition,
                                   !.trashData = NoTrash]
       IN  IF item.type = FOLDER
             THEN <<newItem>> \o CopyChildren(ChildIds(files, itemId), newId, nid + 1, fuel - 1)
             ELSE <<newItem>>

CopyChildren(childIds, newParentId, nid, fuel) ==
  IF childIds = <<>> THEN <<>>
  ELSE LET first == copyItemRecursively(Head(childIds), newParentId, FALSE, nid, fuel)
       IN  first \o CopyChildren(Tail(childIds), newParentId, nid + Len(first), fuel)

\* The recursion of copyItemRecursively goes deeper than the collection has
\* items: a folder is below itself and the call stack overflows.
RECURSIVE CopyOverflows(_, _)
CopyOverflows(itemId, fuel) ==
  /\ Has(files, itemId)
  /\ Find(files, itemId).type = FOLDER
  /\ \/ fuel = 0
     \/ \E i \in DOMAIN files :
          files[i].parentId = itemId /\ CopyOverflows(files[i].id, fuel - 1)

\* clipboard.ids.forEach(id => allNewItems = [...allNewItems, ...copyItemRecursively(id, target, true)])
RECURSIVE PasteAll(_, _, _)
PasteAll(ids, targetFolderId, nid) ==
  IF ids = <<>> THEN <<>>
  ELSE LET first == copyItemRecursively(Head(ids), targetFolderId, TRUE, nid, Len(files) + 1)
       IN  first \o PasteAll(Tail(ids), targetFolderId, nid + Len(first))

\* A paste whose clones are numbered from the first id again every time.
handlePaste_ReuseIds(targetFolderId) ==
  IF clipboard = <<>> THEN Unchanged("noop")
  ELSE IF DestinationCheck(targetFolderId) # "ok" THEN Unchanged(DestinationCheck(targetFolderId))
  ELSE LET allNewItems == PasteAll(clipboard, targetFolderId, 0)
       IN  IF allNewItems # <<>>
             THEN commitAction(files \o allNewItems, [type |-> "PASTE", newItems |-> allNewItems])
             ELSE Unchanged("noop")

handlePaste(targetFolderId) ==
  IF clipboard = <<>> THEN Unchanged("noop")
  ELSE IF DestinationCheck(targetFolderId) # "ok" THEN Unchanged(DestinationCheck(targetFolderId))
  ELSE IF \E i \in DOMAIN clipboard : CopyOverflows(clipboard[i], Len(files)) THEN Unchanged("throw")
  ELSE LET allNewItems == PasteAll(clipboard, targetFolderId, nextId)
       IN  IF allNewItems # <<>>
             THEN commitAction(files \o allNewItems, [type |-> "PASTE", newItems |-> allNewItems])
             ELSE Unchanged("noop")

\* ---------------------------------------------------------------- download
\* A download that leaves a record in the history.
handleDownload_Recorded(item) ==
  IF ~hasPermission(currentUser, item) THEN Unchanged("denied")
  ELSE commitAction(files, [type |-> "DOWNLOAD", id |-> item.id])

\* handleDownload: the permission gate, then a progress display driven by a
\* timer; the busy flag and the progress are display state, the collection and
\* the stacks are not written.
handleDownload(item) ==
  IF ~hasPermission(currentUser, item) THEN Unchanged("denied") ELSE Unchanged("ok")

\* ------------------------------------------------------- tags, visibility
updateTags(itemId, tags) ==
  MapFiles(files, LAMBDA f : IF f.id = itemId THEN [f EXCEPT !.tags = tags] ELSE f)

updateVisibility(itemId, updatedVisibleTo) ==
  IF currentUser # ADMIN THEN files
  ELSE MapFiles(files, LAMBDA f :
         IF f.id = itemId THEN [f EXCEPT !.visibleTo = updatedVisibleTo] ELSE f)

\* A toggle that any role may issue.
handleVisibilityToggle_NoGate(targetId, roleToToggle) ==
  LET idsToUpdate == IF Includes(selectedFileIds, targetId)
                       THEN selectedFileIds ELSE <<targetId>>
  IN  MapFiles(files, LAMBDA f :
        IF Includes(idsToUpdate, f.id)
          THEN [f EXCEPT !.visibleTo =
                  IF roleToToggle \in f.visibleTo
                    THEN f.visibleTo \ {roleToToggle}
                    ELSE f.visibleTo \cup {roleToToggle}]
          ELSE f)

handleVisibilityToggle(targetId, roleToToggle) ==
  IF currentUser # ADMIN THEN files
  ELSE LET idsToUpdate == IF Includes(selectedFileIds, targetId)
                            THEN selectedFileIds ELSE <<targetId>>
       IN  MapFiles(files, LAMBDA f :
             IF Includes(idsToUpdate, f.id)
               THEN [f EXCEPT !.visibleTo =
                       IF roleToToggle \in f.visibleTo
                         THEN f.visibleTo \ {roleToToggle}
                         ELSE f.visibleTo \cup {roleToToggle}]
               ELSE f)

\* ----------------------------------------------------------------- upload
\* The checks of handleUpload before it starts the timer.
UploadCheck(targetFolderId) ==
  IF targetFolderId = TRASH_ID THEN "invalid"
  ELSE IF targetFolderId # ROOT /\ Has(files, targetFolderId)
          /\ ~hasPermission(currentUser, Find(files, targetFolderId)) THEN "denied"
  ELSE "ok"

RECURSIVE TotalSize(_)
TotalSize(fileList) ==
  IF fileList = <<>> THEN 0 ELSE Head(fileList).size + TotalSize(Tail(fileList))

\* What the interval callback of handleUpload closes over.
UploadTimer(fileList, targetFolderId) ==
  [fileList |-> fileList, targetFolderId |-> targetFolderId,
   totalSize |-> TotalSize(fileList), maxOrder |-> MaxOrderIn(files, targetFolderId),
   loaded |-> 0]

\* Array.from(fileList).map((f, idx) => ({...})) when progress reaches 100.
UploadedFiles(u) ==
  [idx \in DOMAIN u.fileList |->
     [id |-> FreshId(nextId + idx), parentId |-> u.targetFolderId,
      name |-> u.fileList[idx].name, type |-> u.fileList[idx].type,
      dateModified |-> now, order |-> u.maxOrder + 1 + (idx - 1),
      position |-> NoPos, trashData |-> NoTrash, visibleTo |-> {USER, JUNIOR}, tags |-> {}]]

\* newFiles.forEach(f => commitAction({type: 'CREATE', ...}))
UploadRecords(newFiles) ==
  [i \in DOMAIN newFiles |-> [type |-> "CREATE", id |-> newFiles[i].id, item |-> newFiles[i]]]

RemoveAt(s, i) == SubSeq(s, 1, i - 1) \o SubSeq(s, i + 1, Len(s))



\* FinderWindow: the upload input and the drop of files call onUpload in a
\* folder view only; the tag view and the trash view ignore both.
onUpload(folderId) ==
  IF IsTagView(folderId) \/ folderId = TRASH_ID THEN "invalid" ELSE UploadCheck(folderId)

\* ------------------------------------------------- what the user can point at
DropPositions == {<<10, 10>>}

RenameNames ==
  {<<"Meeting", " ", "Notes", ".", "txt">>, <<" ", "Plan">>, <<" ">>, <<".", "rc">>,
   <<"Untitled", " ", "Folder", " ", "2">>}

UploadLists ==
  { <<[name |-> <<"Meeting", " ", "Notes", ".", "txt">>, type |-> TEXT, size |-> 1]>>,
    <<[name |-> <<"a">>, type |-> UNKNOWN, size |-> 1],
      [name |-> <<"a">>, type |-> UNKNOWN, size |-> 1]>>,
    <<[name |-> <<"empty">>, type |-> UNKNOWN, size |-> 0]>> }

InfoIds == IF infoId = NOBODY THEN {} ELSE {infoId}

\* The id a drop reads from the dataTransfer: that of an icon on screen, or of
\* an icon dragged in from another window of the application, which lists the
\* items of INITIAL_FILES below the desktop and its folders.
DragSources == ListedIds \cup (Ids(files) \cap (Ids(INITIAL_FILES) \ {ROOT}))

\* getPath(folderId): the chain from the topmost ancestor down to the folder.
RECURSIVE PathUp(_, _, _)
PathUp(fs, id, fuel) ==
  IF ~Has(fs, id) \/ fuel = 0 THEN <<>>
  ELSE LET current == Find(fs, id) IN
    IF current.parentId = NULL \/ current.parentId = "" \/ current.parentId = TRASH_ID
      THEN <<current>>
      ELSE Append(PathUp(fs, current.parentId, fuel - 1), current)

\* The while loop of getPath started at `id` is still running after it has
\* visited more items than the collection holds: it never ends.
RECURSIVE PathWalkLoops(_, _, _)
PathWalkLoops(fs, id, fuel) ==
  IF ~Has(fs, id) THEN FALSE
  ELSE LET current == Find(fs, id) IN
    IF current.parentId = NULL \/ current.parentId = "" \/ current.parentId = TRASH_ID
      THEN FALSE
      ELSE IF fuel = 0 THEN TRUE
      ELSE PathWalkLoops(fs, current.parentId, fuel - 1)

getPathLoops(folderId) ==
  /\ ~IsTagView(folderId)
  /\ folderId # TRASH_ID
  /\ PathWalkLoops(files, folderId, Len(files))

getPath(folderId) ==
  IF IsTagView(folderId) THEN <<>>
  ELSE IF folderId = TRASH_ID
    THEN <<[id |-> TRASH_ID, parentId |-> NULL, name |-> <<"Trash">>, type |-> FOLDER,
            dateModified |-> now, order |-> 0, position |-> NoPos, trashData |-> NoTrash,
            visibleTo |-> {}, tags |-> {}]>>
  ELSE PathUp(files, folderId, Len(files))

\* Where a dragged icon can be dropped: the sidebar entries, a folder on screen,
\* the background of the Finder window, a breadcrumb other than the last.
MoveTargets ==
  {ROOT, TRASH_ID, "docs"}
    \cup (ListedIds \cap FolderIds)
    \cup (IF IsTagView(currentFolderId) \/ currentFolderId = TRASH_ID THEN {} ELSE {currentFolderId})
    \cup {getPath(currentFolderId)[i].id : i \in 1..(Len(getPath(currentFolderId)) - 1)}

\* --------------------------------------------------------------- commands
CommandWith(op, r, id, ids, target, arg, created) ==
  /\ nextId + created <= MaxNew
  /\ ApplyWith(op, r, id, ids, target, arg)
  /\ selectedFileIds' = IF r.clearSel THEN <<>> ELSE selectedFileIds
  /\ hung' = (r.outcome = "hang")
  /\ nextId' = nextId + created
  /\ UNCHANGED <<clipboard, currentUser, currentFolderId, infoId, now, uploads>>

Command(op, r, id, ids, target, created) == CommandWith(op, r, id, ids, target, <<>>, created)

Created(r) == Len(r.files) - Len(files)

\* Ctrl+Z and Ctrl+Shift+Z of the keyboard listener.
Undo ==
  /\ CanStep
  /\ Command("undo", performUndo, "", <<>>, "", 0)

Redo ==
  /\ CanStep
  /\ Command("redo", performRedo, "", <<>>, "", 0)

\* The rename field of an icon or row, or the name field of the Info window.
Rename ==
  /\ CanStep /\ LoggedIn
  /\ \E id \in ListedIds \cup InfoIds, newName \in RenameNames :
       CommandWith("rename", handleRenameConfirm(id, newName), id, <<>>, "", newName, 0)

\* A drop on a folder, the sidebar, a breadcrumb or a window (no position), or
\* handleDesktopDrop of an icon that is not on the desktop (with the position).
Move ==
  /\ CanStep /\ LoggedIn
  /\ \E sourceId \in DragSources :
       \/ \E target \in MoveTargets :
            Command("move", handleMoveFile(sourceId, target, NoPos),
                    sourceId, IdsToMove(sourceId), target, 0)
       \/ \E p \in DropPositions :
            /\ Find(files, sourceId).parentId # ROOT
            /\ CommandWith("move", handleMoveFile(sourceId, ROOT, p),
                           sourceId, IdsToMove(sourceId), ROOT, p, 0)

\* handleDesktopDrop of an icon that is on the desktop.
Reposition ==
  /\ CanStep /\ LoggedIn
  /\ \E id \in DragSources, p \in DropPositions :
       /\ Find(files, id).parentId = ROOT
       /\ Command("reposition", handleReposition(id, p), id, <<>>, "", 0)

\* A drop on an icon or row that is no folder.
Swap ==
  /\ CanStep /\ LoggedIn
  /\ \E sourceId \in DragSources, targetId \in ListedIds \ FolderIds :
       /\ sourceId # targetId
       /\ Command("swap", handleSwapFile(sourceId, targetId), sourceId, <<>>, targetId, 0)

\* The context menu on one icon, a drop on the dock, or the Delete key on the
\* selection.
MoveToTrash ==
  /\ CanStep /\ LoggedIn
  /\ \E ids \in {<<id>> : id \in DragSources} \cup {selectedFileIds} :
       /\ ids # <<>>
       /\ Command("trash", handleMoveToTrash(ids), "", ids, TRASH_ID, 0)

\* "Put Back" on a trashed icon, or the Restore button of the trash view.
Restore ==
  /\ CanStep /\ LoggedIn
  /\ \E ids \in {<<id>> : id \in {i \in ListedIds : Find(files, i).parentId = TRASH_ID}}
               \cup (IF currentFolderId = TRASH_ID /\ selectedFileIds # <<>>
                       THEN {selectedFileIds} ELSE {}) :
       Command("restore", handleRestoreFile(ids), "", ids, "", 0)

\* "Delete Immediately" on a trashed icon, or the Delete button of the trash view.
PermanentDelete ==
  /\ CanStep /\ LoggedIn
  /\ \E ids \in {<<id>> : id \in {i \in ListedIds : Find(files, i).parentId = TRASH_ID}}
               \cup (IF currentFolderId = TRASH_ID /\ selectedFileIds # <<>>
                       THEN {selectedFileIds} ELSE {}) :
       Command("delete", handlePermanentDelete(ids), "", ids, "", 0)

EmptyTrash ==
  /\ CanStep /\ LoggedIn /\ currentFolderId = TRASH_ID
  /\ Command("emptyTrash", handleEmptyTrash, "", TrashIds, "", 0)

NewFolder ==
  /\ CanStep /\ LoggedIn
  /\ LET r == handleNewFolderAction(currentFolderId)
     IN  Command("newFolder", r, "", <<>>, currentFolderId, Created(r))

\* Ctrl+V of the keyboard listener, or "Paste" of the context menu.
Paste ==
  /\ CanStep
  /\ LET r == handlePaste(currentFolderId)
     IN  Command("paste", r, "", clipboard, currentFolderId, Created(r))

\* handleCopy of the selection, or of one icon from its context menu.
Copy ==
  /\ CanStep /\ LoggedIn
  /\ \E ids \in {<<id>> : id \in {i \in ListedIds : Find(files, i).parentId # TRASH_ID}}
               \cup {selectedFileIds} :
       /\ ids # <<>>
       /\ clipboard' = ids
       /\ Apply("copy", Unchanged("ok"), "", ids, "")
       /\ UNCHANGED <<view, now, nextId, uploads, hung>>

\* "Download" in the context menu of an icon.
Download ==
  /\ CanStep /\ LoggedIn
  /\ \E id \in {i \in ListedIds : Find(files, i).parentId # TRASH_ID} :
       /\ Apply("download", handleDownload(Find(files, id)), id, <<>>, "")
       /\ UNCHANGED <<clipboard, view, now, nextId, uploads, hung>>

\* InfoWindow toggleTag -> updateTags(win.data.id, tags)
UpdateTags ==
  /\ CanStep /\ LoggedIn /\ infoId # NOBODY
  /\ \E tags \in SUBSET {"red"} :
       Command("updateTags", Result("ok", updateTags(infoId, tags), undoStack, redoStack),
               infoId, <<>>, "", 0)

\* InfoWindow toggleGroup -> updateVisibility(win.data.id, visibleTo)
UpdateVisibility ==
  /\ CanStep /\ LoggedIn /\ infoId # NOBODY
  /\ \E visibleTo \in SUBSET {USER, JUNIOR} :
       Command("updateVisibility",
               Result(IF currentUser = ADMIN THEN "ok" ELSE "denied",
                      updateVisibility(infoId, visibleTo), undoStack, redoStack),
               infoId, <<>>, "", 0)

\* The context menu entries "Visible to User" / "Visible to Junior".
VisibilityToggle ==
  /\ CanStep /\ LoggedIn
  /\ \E targetId \in {i \in ListedIds : Find(files, i).parentId # TRASH_ID},
        role \in {USER, JUNIOR} :
       Command("toggleVisibility",
               Result(IF currentUser = ADMIN THEN "ok" ELSE "denied",
                      handleVisibilityToggle(targetId, role), undoStack, redoStack),
               targetId,
               IF Includes(selectedFileIds, targetId) THEN selectedFileIds ELSE <<targetId>>,
               role, 0)

\* The user picks files for, or drops files on, the active Finder window; when
\* handleUpload accepts them it starts the interval.
UploadStart ==
  /\ CanStep /\ LoggedIn
  /\ Len(uploads) < 1
  /\ \E fileList \in UploadLists :
       /\ uploads' = IF onUpload(currentFolderId) = "ok"
                       THEN Append(uploads, UploadTimer(fileList, currentFolderId))
                       ELSE uploads
       /\ Apply("uploadStart", Unchanged(onUpload(currentFolderId)), "", <<>>, currentFolderId)
       /\ UNCHANGED <<clipboard, view, now, nextId, hung>>

\* One firing of the interval of a running upload.
UploadTick ==
  /\ ~hung
  /\ \E i \in DOMAIN uploads :
       LET u == uploads[i] IN
         /\ u.totalSize > 0
         /\ IF u.loaded + 1 < UploadTicks
              THEN /\ uploads' = [uploads EXCEPT ![i].loaded = u.loaded + 1]
                   /\ UNCHANGED <<data, clipboard, view, now, nextId, hung, ghost>>
              ELSE /\ budget > 0
                   /\ nextId + Len(u.fileList) <= MaxNew
                   /\ uploads' = RemoveAt(uploads, i)
                   /\ Apply("upload",
                            Result("ok", files \o UploadedFiles(u),
                                   undoStack \o UploadRecords(UploadedFiles(u)), <<>>),
                            "", <<>>, u.targetFolderId)
                   /\ nextId' = nextId + Len(u.fileList)
                   /\ UNCHANGED <<clipboard, view, now, hung>>

\* A click on an icon, with or without the Ctrl key, or on the background.
Select ==
  /\ CanStep /\ LoggedIn
  /\ \/ \E id \in ListedIds :
          \/ selectedFileIds' = <<id>> /\ selectedFileIds # <<id>>
          \/ Len(selectedFileIds) < MaxSel /\ selectedFileIds' = Append(selectedFileIds, id)
     \/ selectedFileIds # <<>> /\ selectedFileIds' = <<>>
  /\ budget' = budget - 1
  /\ UNCHANGED <<data, clipboard, currentUser, currentFolderId, infoId, now, nextId, uploads, hung,
                 lastOp, pre, hist>>

\* handleGetInfo of an icon, of the folder of the active window, or of 'root'.
OpenInfo ==
  /\ CanStep /\ LoggedIn
  /\ \E id \in ListedIds \cup {ROOT, currentFolderId} :
       /\ Has(files, id) /\ hasPermission(currentUser, Find(files, id))
       /\ id # infoId
       /\ infoId' = id
  /\ budget' = budget - 1
  /\ UNCHANGED <<data, clipboard, selectedFileIds, currentUser, currentFolderId, now, nextId, uploads,
                 hung, lastOp, pre, hist>>

\* ---------------------------------------------------------- specifications
\* Every handler that writes the collection, the stacks, the clipboard, the
\* selection or the view, MaxSteps calls deep.
Init ==
  /\ InitCommon
  /\ hist = HistNone
  /\ budget = MaxSteps

Next ==
  \/ Login \/ Logout \/ Navigate \/ Select \/ OpenInfo
  \/ Undo \/ Redo \/ Rename \/ Move \/ Reposition \/ Swap
  \/ MoveToTrash \/ Restore \/ PermanentDelete \/ EmptyTrash
  \/ NewFolder \/ Paste \/ Copy \/ UpdateTags \/ UpdateVisibility \/ VisibilityToggle
  \/ UploadStart \/ UploadTick

Spec == Init /\ [][Next]_vars

\* The history: commands on the desktop, undo and redo, HistSteps calls deep,
\* the run of commits recorded in `hist`.
InitHist ==
  /\ InitCommon
  /\ hist = HistOff
  /\ budget = HistSteps

NextHist ==
  \/ Login \/ Undo \/ Redo \/ Reposition \/ MoveToTrash \/ NewFolder

SpecHist == InitHist /\ [][NextHist]_vars

\* Trash and restore from every view, the run of commits recorded in `hist`.
InitTrash ==
  /\ InitCommon
  /\ hist = HistOff
  /\ budget = TrashSteps

NextTrash ==
  \/ Login \/ Navigate \/ OpenInfo \/ UpdateTags \/ MoveToTrash \/ Restore

SpecTrash == InitTrash /\ [][NextTrash]_vars

\* Copy and paste, PasteSteps calls deep.
InitPaste ==
  /\ InitCommon
  /\ hist = HistNone
  /\ budget = PasteSteps

NextPaste ==
  \/ Login \/ Navigate \/ Rename \/ Copy \/ Paste

SpecPaste == InitPaste /\ [][NextPaste]_vars

\* Trash, permanent delete and undo, DeleteSteps calls deep, the run of commits
\* recorded in `hist`.
InitDelete ==
  /\ InitCommon
  /\ hist = HistOff
  /\ budget = DeleteSteps

NextDelete ==
  \/ Login \/ Navigate \/ MoveToTrash \/ PermanentDelete \/ EmptyTrash \/ Undo

SpecDelete == InitDelete /\ [][NextDelete]_vars

\* What adds items to the collection and what removes them: new folder, paste,
\* permanent delete, and the undo and redo of each, IdSteps calls deep.
InitIds ==
  /\ InitCommon
  /\ hist = HistNone
  /\ budget = IdSteps

NextIds ==
  \/ Login \/ Navigate \/ MoveToTrash \/ PermanentDelete \/ NewFolder \/ Copy \/ Paste
  \/ Undo \/ Redo

SpecIds == InitIds /\ [][NextIds]_vars

\* Who sees what: the visibility of items changed from the Info window and the
\* context menu, seen by each role in turn, ViewSteps calls deep.
InitView ==
  /\ InitCommon
  /\ hist = HistNone
  /\ budget = ViewSteps

NextView ==
  \/ Login \/ Logout \/ Navigate \/ Select \/ OpenInfo
  \/ UpdateVisibility \/ VisibilityToggle \/ MoveToTrash \/ NewFolder

SpecView == InitView /\ [][NextView]_vars

\* New folders next to renamed siblings, FolderSteps calls deep.
InitFolder ==
  /\ InitCommon
  /\ hist = HistNone
  /\ budget = FolderSteps

NextFolder ==
  \/ Login \/ Navigate \/ Rename \/ NewFolder \/ Undo

SpecFolder == InitFolder /\ [][NextFolder]_vars

\* Uploads from start to completion, UploadSteps calls deep. The interval of a
\* running upload keeps firing, so its callback is taken again and again for
\* as long as it has something to do.
InitUpload ==
  /\ InitCommon
  /\ hist = HistNone
  /\ budget = UploadSteps

NextUpload ==
  \/ Login \/ Navigate \/ NewFolder \/ UploadStart \/ UploadTick

SpecUpload == InitUpload /\ [][NextUpload]_vars /\ WF_vars(UploadTick)

\* Trash, restore, and the undo and redo of both, RestoreSteps calls deep, the
\* run of commits recorded in `hist`.
InitRestore ==
  /\ InitCommon
  /\ hist = HistOff
  /\ budget = RestoreSteps

NextRestore ==
  \/ Login \/ Navigate \/ MoveToTrash \/ Restore \/ Undo \/ Redo

SpecRestore == InitRestore /\ [][NextRestore]_vars

\* Drags of one icon or of a selection onto folders, the desktop and the trash,
\* MoveSteps calls deep.
InitMove ==
  /\ InitCommon
  /\ hist = HistNone
  /\ budget = MoveSteps

NextMove ==
  \/ Login \/ Navigate \/ Select \/ Move \/ Reposition \/ MoveToTrash \/ NewFolder

SpecMove == InitMove /\ [][NextMove]_vars

\* Copies of icons and of selections, from folders and from the trash, pasted
\* into folders and onto the desktop, CloneSteps calls deep.
InitClone ==
  /\ InitCommon
  /\ hist = HistNone
  /\ budget = CloneSteps

NextClone ==
  \/ Login \/ Navigate \/ Select \/ MoveToTrash \/ Copy \/ Paste

SpecClone == InitClone /\ [][NextClone]_vars

\* Drops of icons on icons that are no folder, between moves and new folders,
\* SwapSteps calls deep, the run of commits recorded in `hist`.
InitSwap ==
  /\ InitCommon
  /\ hist = HistOff
  /\ budget = SwapSteps

NextSwap ==
  \/ Login \/ Navigate \/ Swap \/ Move \/ NewFolder

SpecSwap == InitSwap /\ [][NextSwap]_vars

\* Commands that stay outside the history (copy, download, navigation, tags,
\* visibility), issued while both stacks hold records, ReadSteps calls deep.
InitReads ==
  /\ InitCommon
  /\ hist = HistNone
  /\ budget = ReadSteps

NextReads ==
  \/ Login \/ Navigate \/ OpenInfo \/ Copy \/ Download \/ UpdateTags \/ VisibilityToggle
  \/ MoveToTrash \/ Undo

SpecReads == InitReads /\ [][NextReads]_vars

\* ------------------------------------------------------------- properties
\* Two collections hold the same items, field by field, whatever the order of
\* the array.
SameItems(a, b) == Len(a) = Len(b) /\ Range(a) = Range(b)

\* The last handler call pushed on the undo stack and was neither undo nor redo.
LastCommitted ==
  /\ lastOp.op \notin {"init", "undo", "redo"}
  /\ Len(undoStack) > Len(pre.undoStack)

\* The last handler call left the collection and both stacks as they were.
NothingChanged ==
  /\ files = pre.files
  /\ undoStack = pre.undoStack
  /\ redoStack = pre.redoStack

\* C1 (undo inverse law): after a run of committed commands followed by as
\* many undos, the collection holds exactly the items it held before the run,
\* equal field by field; the same for the last k commands and k undos.
UndoRestoresSnapshot ==
  hist.phase = "undo" =>
    SameItems(files, hist.snaps[Len(hist.snaps) - hist.k + 1])

\* C2 (redo inverse law): after N undos followed by N redos the collection
\* holds exactly the items it held before the first undo.
RedoRestoresPostState ==
  (hist.phase = "redo" /\ hist.j = hist.k) => SameItems(files, hist.post)

\* C3 (commit clears redo): a committed command leaves the redo stack empty,
\* so a redo issued after it changes neither the collection nor the stacks.
CommitClearsRedo ==
  LastCommitted =>
    /\ redoStack = <<>>
    /\ performRedo.files = files
    /\ performRedo.undoStack = undoStack
    /\ performRedo.redoStack = redoStack

\* A command was committed while the redo stack held an undone action.
CommitAfterUndo ==
  /\ LastCommitted
  /\ pre.redoStack # <<>>
  /\ performRedo.outcome = "noop"

\* The ids of the items at or below the items of S: S and, n times over, the
\* children of what has been collected.
RECURSIVE DescendantsOf(_, _, _)
DescendantsOf(fs, S, n) ==
  IF n = 0 THEN S
  ELSE DescendantsOf(fs, S \cup {fs[i].id : i \in {j \in DOMAIN fs : fs[j].parentId \in S}}, n - 1)

\* C4 (cycle rejection): a move whose destination is the source itself or one
\* of its descendants leaves the collection and both stacks unchanged.
CycleRejected ==
  ( /\ lastOp.op = "move"
    /\ Has(pre.files, lastOp.id)
    /\ lastOp.target \in DescendantsOf(pre.files, {lastOp.id}, Len(pre.files)) )
  => NothingChanged

\* A folder was dragged onto a folder below it, by a user who sees both.
MoveIntoDescendant ==
  /\ lastOp.op = "move"
  /\ Has(pre.files, lastOp.id)
  /\ lastOp.target # lastOp.id
  /\ lastOp.target \in DescendantsOf(pre.files, {lastOp.id}, Len(pre.files))
  /\ isFileVisible(lastOp.user, Find(pre.files, lastOp.id))
  /\ isFileVisible(lastOp.user, Find(pre.files, lastOp.target))
  /\ lastOp.outcome = "invalid"

\* The chain of parentId links that starts at `id` meets `goal`.
RECURSIVE ReachesUp(_, _, _, _)
ReachesUp(fs, id, goal, fuel) ==
  IF id = goal THEN TRUE
  ELSE IF ~Has(fs, id) \/ fuel = 0 THEN FALSE
  ELSE ReachesUp(fs, Find(fs, id).parentId, goal, fuel - 1)

\* C5 (forest invariant): in every reachable state no item is its own
\* ancestor along the parentId links.
ForestInvariant ==
  \A i \in DOMAIN files : ~ReachesUp(files, files[i].parentId, files[i].id, Len(files))

\* C6 (trash round-trip): when move-to-trash of X is followed by restore of X,
\* X is in the collection under the same id, with the parentId it had before
\* it was trashed and with no trashData.
TrashRoundTrip ==
  LET n == Len(hist.ops) IN
    ( /\ hist.phase = "cmd"
      /\ n >= 2
      /\ hist.ops[n - 1].op = "trash"
      /\ hist.ops[n].op = "restore" )
    => \A X \in Range(hist.ops[n - 1].ids) \cap Range(hist.ops[n].ids) :
         Has(hist.snaps[n - 1], X) =>
           /\ Has(files, X)
           /\ Find(files, X).parentId = Find(hist.snaps[n - 1], X).parentId
           /\ Find(files, X).trashData = NoTrash

\* The k-th name of the series "base copy", "base copy 2", ... with the
\* extension put back.
NthCopy(base, ext, k) ==
  base \o (IF k = 1 THEN <<" ", "copy">> ELSE <<" ", "copy", " ", ToString(k)>>) \o ext

\* The first name of that series no sibling has.
FirstFreeCopy(base, ext, taken) ==
  LET k == CHOOSE n \in 1..(Cardinality(taken) + 1) :
             /\ NthCopy(base, ext, n) \notin taken
             /\ \A m \in 1..(n - 1) : NthCopy(base, ext, m) \in taken
  IN  NthCopy(base, ext, k)

HasDot(name) == \E i \in DOMAIN name : name[i] = "."

\* The position of the last "." of a name that has one.
DotAt(name) == CHOOSE i \in DOMAIN name : name[i] = "." /\ \A j \in DOMAIN name : name[j] = "." => j <= i

\* The clones a paste puts directly into its target, and the clipboard items
\* they are clones of.
PastedTops ==
  SelectSeq(SubSeq(files, Len(pre.files) + 1, Len(files)), LAMBDA f : f.parentId = lastOp.target)

PastedOrigins == SelectSeq(lastOp.ids, LAMBDA id : Has(pre.files, id))

\* Every top-level clone of the last paste carries the name the rule gives:
\* the original's name when no sibling has it, else the first free name of
\* the copy series built on Split(name) = <<base, extension>>.
PasteNamesFollow(Split(_)) ==
  (lastOp.op = "paste" /\ lastOp.outcome = "ok") =>
    /\ Len(PastedTops) = Len(PastedOrigins)
    /\ \A i \in DOMAIN PastedTops :
         LET name == Find(pre.files, PastedOrigins[i]).name
             taken == SiblingNames(pre.files, lastOp.target)
         IN  PastedTops[i].name =
               IF name \in taken
                 THEN FirstFreeCopy(Split(name)[1], Split(name)[2], taken)
                 ELSE name

\* The extension is what starts at the last ".", wherever that is.
SplitAtLastDot(name) ==
  IF HasDot(name)
    THEN <<SubSeq(name, 1, DotAt(name) - 1), SubSeq(name, DotAt(name), Len(name))>>
    ELSE <<name, <<>>>>

\* The extension is what starts at the last ".", unless that "." opens the name.
SplitAtInnerDot(name) ==
  IF HasDot(name) /\ DotAt(name) > 1
    THEN <<SubSeq(name, 1, DotAt(name) - 1), SubSeq(name, DotAt(name), Len(name))>>
    ELSE <<name, <<>>>>

\* C7 (paste name de-duplication), as stated: a pasted top-level item whose
\* name a sibling in the destination has is named with the first free of
\* "base copy", "base copy 2", ..., the extension after the last "."
\* re-appended.
PasteNameDedup == PasteNamesFollow(SplitAtLastDot)

\* C7, amended: the same, the extension being re-appended only when the last
\* "." is not the first character of the name; a name that starts with its
\* only "." gets the suffix at its end.
PasteNameDedupInnerDot == PasteNamesFollow(SplitAtInnerDot)

\* A second paste next to the original and its first copy took the second
\* name of the series, the extension put back.
PastedSecondCopy ==
  /\ lastOp.op = "paste" /\ lastOp.outcome = "ok"
  /\ \E i \in DOMAIN PastedTops :
       LET name == Find(pre.files, PastedOrigins[i]).name
       IN  /\ HasDot(name) /\ DotAt(name) > 1
           /\ PastedTops[i].name = NthCopy(SplitAtLastDot(name)[1], SplitAtLastDot(name)[2], 2)

\* The items of the collection before the last handler call that are no longer
\* in it as they were: changed or removed.
Touched == {i \in DOMAIN pre.files : pre.files[i] \notin Range(files)}

\* C8 (gate before mutation): no handler call of a logged-in user changes or
\* removes an item that the user could not see when the call was made.
GateBeforeMutation ==
  lastOp.user # NOBODY =>
    \A i \in Touched : isFileVisible(lastOp.user, pre.files[i])

\* The item was in the collection before the last call, out of its user's sight.
Hidden(id) ==
  Has(pre.files, id) /\ ~isFileVisible(lastOp.user, Find(pre.files, id))

\* The last call was one of the gated commands and the gate failed on an item
\* it names; the desktop as a destination is not gated.
GateFailed ==
  \/ lastOp.op \in {"rename", "reposition"} /\ Hidden(lastOp.id)
  \/ /\ lastOp.op = "move"
     /\ \/ Hidden(lastOp.id)
        \/ lastOp.target \notin {ROOT, TRASH_ID} /\ Hidden(lastOp.target)
  \/ lastOp.op = "swap" /\ (Hidden(lastOp.id) \/ Hidden(lastOp.target))
  \/ lastOp.op = "trash" /\ \E i \in DOMAIN lastOp.ids : Hidden(lastOp.ids[i])
  \/ /\ lastOp.op \in {"paste", "newFolder", "uploadStart"}
     /\ lastOp.target # ROOT /\ Hidden(lastOp.target)

\* C9 (permission denied): when the gate fails for rename, move, swap,
\* reposition, move-to-trash, paste, new folder or upload, the collection and
\* both stacks stay as they were, and no upload is started.
DeniedChangesNothing ==
  GateFailed =>
    /\ NothingChanged
    /\ lastOp.op = "uploadStart" => uploads = pre.uploads

\* A user who sees the dragged item dropped it on a folder hidden from them.
MoveIntoHiddenFolder ==
  /\ lastOp.op = "move"
  /\ Has(pre.files, lastOp.id) /\ ~Hidden(lastOp.id)
  /\ lastOp.target \notin {ROOT, TRASH_ID} /\ Hidden(lastOp.target)
  /\ lastOp.user # NOBODY
  /\ lastOp.outcome = "denied"

\* C10 (invalid destination): paste, new folder and upload aimed at the trash
\* or at a tag view create no item, commit nothing and start no upload.
InvalidDestinationChangesNothing ==
  ( /\ lastOp.op \in {"paste", "newFolder", "uploadStart"}
    /\ (lastOp.target = TRASH_ID \/ IsTagView(lastOp.target)) )
  => /\ NothingChanged
     /\ lastOp.op = "uploadStart" => uploads = pre.uploads

\* A clipboard that holds an item of the collection was pasted in a tag view.
PasteIntoTagView ==
  /\ lastOp.op = "paste"
  /\ IsTagView(lastOp.target)
  /\ \E i \in DOMAIN lastOp.ids : Has(pre.files, lastOp.ids[i])
  /\ lastOp.user # NOBODY
  /\ lastOp.outcome = "invalid"

\* The commands that record themselves on the undo stack.
RecordingOps ==
  {"rename", "move", "reposition", "swap", "trash", "restore", "delete", "emptyTrash",
   "newFolder", "paste"}

\* C11 (no empty history records): a rename, move, reposition, swap-order,
\* move-to-trash, restore, permanent delete, create or paste that pushed a
\* history action changed at least one item of the collection.
NoEmptyHistoryRecord ==
  (lastOp.op \in RecordingOps /\ Len(undoStack) > Len(pre.undoStack)) => files # pre.files

\* The last call renamed an item to the name it already has, once trimmed.
RenamedToOwnName ==
  /\ lastOp.op = "rename"
  /\ Has(pre.files, lastOp.id)
  /\ Trim(lastOp.arg) = Find(pre.files, lastOp.id).name

\* The items the last move was to carry: those of the collection among idsToMove.
MovedIdxs == {i \in DOMAIN pre.files : Includes(lastOp.ids, pre.files[i].id)}

\* The last call was a move to a folder, no position supplied; a drop on the
\* trash is the move-to-trash command.
MovedWithoutPosition ==
  /\ lastOp.op = "move"
  /\ lastOp.arg = NoPos
  /\ lastOp.target # TRASH_ID

\* C12 (no-op mutations are ignored): a rename to the item's current name
\* (after trimming) changes nothing and pushes no history record; a move
\* without a position leaves every item that is already in the target folder
\* as it was, and pushes no history record when all the moved items are there.
NoOpMutationsIgnored ==
  /\ RenamedToOwnName => NothingChanged
  /\ MovedWithoutPosition =>
       /\ \A i \in MovedIdxs :
            pre.files[i].parentId = lastOp.target => files[i] = pre.files[i]
       /\ (\A i \in MovedIdxs : pre.files[i].parentId = lastOp.target) => NothingChanged

\* An item was given a name with a leading blank that trims to its own name.
RenamedToPaddedOwnName ==
  /\ RenamedToOwnName
  /\ lastOp.arg # Trim(lastOp.arg)
  /\ isFileVisible(lastOp.user, Find(pre.files, lastOp.id))
  /\ Find(pre.files, lastOp.id).parentId # TRASH_ID
  /\ lastOp.outcome = "noop"

Reverse(s) == [i \in 1..Len(s) |-> s[Len(s) + 1 - i]]

\* The actions of the history in the order they were committed: the done ones,
\* then the undone ones, the most recently undone first.
Timeline(u, r) == u \o Reverse(r)

\* C13 (history stack discipline): undo on an empty undo stack and redo on an
\* empty redo stack change nothing; otherwise undo moves exactly the most
\* recent action from the undo stack to the redo stack and redo moves it back,
\* so undoStack followed by the reversed redoStack is the same sequence before
\* and after.
StackDiscipline ==
  /\ lastOp.op = "undo" =>
       /\ pre.undoStack = <<>> => NothingChanged
       /\ pre.undoStack # <<>> =>
            /\ undoStack = Front(pre.undoStack)
            /\ redoStack = Append(pre.redoStack, Last(pre.undoStack))
  /\ lastOp.op = "redo" =>
       /\ pre.redoStack = <<>> => NothingChanged
       /\ pre.redoStack # <<>> =>
            /\ redoStack = Front(pre.redoStack)
            /\ undoStack = Append(pre.undoStack, Last(pre.redoStack))
  /\ lastOp.op \in {"undo", "redo"} =>
       Timeline(undoStack, redoStack) = Timeline(pre.undoStack, pre.redoStack)

\* A redo took one of two undone actions back onto a non-empty undo stack.
RedoBetweenStacks ==
  /\ lastOp.op = "redo"
  /\ Len(pre.redoStack) >= 2
  /\ pre.undoStack # <<>>
  /\ Len(undoStack) = Len(pre.undoStack) + 1

\* The last commit of the recorded run was a permanent delete and exactly one
\* undo followed it.
DeleteUndone ==
  /\ hist.phase = "undo"
  /\ hist.k = 1
  /\ Last(hist.ops).op \in {"delete", "emptyTrash"}

\* C14 (permanent delete is undoable exactly): after a permanent delete and
\* its undo every deleted item is in the collection again under its id with
\* the field values it had before the delete, order included, and every other
\* item is as it was.
DeleteUndoExact ==
  DeleteUndone =>
    LET before == Last(hist.snaps) IN
      /\ \A i \in DOMAIN before :
           /\ Has(files, before[i].id)
           /\ Find(files, before[i].id) = before[i]
      /\ SameItems(files, before)

\* Two trashed items were deleted at once and the delete was undone.
TwoDeletedAndUndone ==
  /\ DeleteUndone
  /\ Len(Last(hist.ops).ids) = 2
  /\ \A i \in 1..2 : Has(Last(hist.snaps), Last(hist.ops).ids[i])
  /\ Len(hist.post) = Len(Last(hist.snaps)) - 2
  /\ Len(files) = Len(hist.post) + 2

\* C15 (trash metadata invariant): in every reachable state an item has
\* trashData exactly when its parentId is the trash sentinel, and the stored
\* originalParentId is never the trash sentinel.
TrashMetadataInvariant ==
  \A i \in DOMAIN files :
    /\ files[i].trashData # NoTrash <=> files[i].parentId = TRASH_ID
    /\ files[i].trashData # NoTrash => files[i].trashData[1] # TRASH_ID

IdSeq(fs) == [i \in DOMAIN fs |-> fs[i].id]

\* The ids the last handler call was entitled to take out of the collection:
\* those a delete names, those of the CREATE or PASTE record an undo reversed,
\* those of the DELETE record a redo replayed.
RemovableIds ==
  IF lastOp.op \in {"delete", "emptyTrash"} THEN Range(lastOp.ids)
  ELSE IF lastOp.op = "undo" /\ pre.undoStack # <<>> THEN
    LET a == Last(pre.undoStack) IN
      IF a.type = "CREATE" THEN {a.id}
      ELSE IF a.type = "PASTE" THEN Ids(a.newItems)
      ELSE {}
  ELSE IF lastOp.op = "redo" /\ pre.redoStack # <<>> THEN
    LET a == Last(pre.redoStack) IN
      IF a.type = "DELETE" THEN Ids(a.files) ELSE {}
  ELSE {}

\* C16 (identifier invariant): no two items of the collection share an id,
\* and a handler call leaves every item it keeps under the id it had: the ids
\* of the collection before the call, less those the call removed, are the ids
\* of the same array slots after it, and only a delete, an undone create or
\* paste, or a redone delete removes any.
IdentifierInvariant ==
  /\ \A i, j \in DOMAIN files : files[i].id = files[j].id => i = j
  /\ LET kept == SelectSeq(IdSeq(pre.files), LAMBDA id : id \in Ids(files))
     IN  /\ Len(kept) <= Len(files)
         /\ kept = SubSeq(IdSeq(files), 1, Len(kept))
         /\ Ids(pre.files) \ Ids(files) \subseteq RemovableIds

\* A redo put the clones of an undone paste back into the collection.
PasteRedone ==
  /\ lastOp.op = "redo"
  /\ pre.redoStack # <<>>
  /\ Last(pre.redoStack).type = "PASTE"
  /\ Len(files) = Len(pre.files) + Len(Last(pre.redoStack).newItems)
  /\ Ids(Last(pre.redoStack).newItems) \subseteq Ids(files)

\* C17 (visibility evaluator): for an ADMIN user isFileVisible is true of every
\* item whatever its visibleTo holds; for any other logged-in user it is true
\* exactly when the user's role is a member of the item's visibleTo.
VisibilityEvaluator ==
  \A r \in Roles, i \in DOMAIN files, v \in SUBSET Roles :
    LET item == [files[i] EXCEPT !.visibleTo = v]
    IN  /\ r = ADMIN => isFileVisible(r, item)
        /\ r # ADMIN => (isFileVisible(r, item) <=> r \in v)

\* The administrator took every role off an item and still sees it.
AdminSeesItemVisibleToNone ==
  /\ lastOp.op = "updateVisibility"
  /\ currentUser = ADMIN
  /\ Has(files, lastOp.id)
  /\ Find(pre.files, lastOp.id).visibleTo # {}
  /\ Find(files, lastOp.id).visibleTo = {}
  /\ isFileVisible(currentUser, Find(files, lastOp.id))
  /\ Find(files, lastOp.id) \in Range(visibleFiles)

\* C18 (full-access equivalence): for every user, logged in or not, and every
\* item, hasPermission gives what isFileVisible gives, in every state.
FullAccessEquivalence ==
  \A r \in Roles \cup {NOBODY}, i \in DOMAIN files, v \in SUBSET Roles :
    LET item == [files[i] EXCEPT !.visibleTo = v]
    IN  hasPermission(r, item) <=> isFileVisible(r, item)

\* A user who is no administrator tried to trash an item they cannot see.
TrashOfUnseenItemDenied ==
  /\ lastOp.op = "trash"
  /\ lastOp.user \in {USER, JUNIOR}
  /\ lastOp.outcome = "denied"
  /\ \E i \in DOMAIN lastOp.ids :
       /\ Has(pre.files, lastOp.ids[i])
       /\ ~isFileVisible(lastOp.user, Find(pre.files, lastOp.ids[i]))
       /\ ~hasPermission(lastOp.user, Find(pre.files, lastOp.ids[i]))

\* The items of the collection under `folderId` that the current user's role
\* lets them see.
VisibleChildren(folderId) ==
  {i \in DOMAIN files :
     /\ files[i].parentId = folderId
     /\ currentUser # NOBODY
     /\ currentUser = ADMIN \/ currentUser \in files[i].visibleTo}

NumberedFolderName(k) ==
  IF k = 1 THEN <<"Untitled", " ", "Folder">>
  ELSE <<"Untitled", " ", "Folder", " ", ToString(k)>>

\* The first name of that series none of `taken` is.
FirstFreeFolderName(taken) ==
  LET k == CHOOSE n \in 1..(Cardinality(taken) + 1) :
             /\ NumberedFolderName(n) \notin taken
             /\ \A m \in 1..(n - 1) : NumberedFolderName(m) \in taken
  IN  NumberedFolderName(k)

\* The last call created a folder.
FolderCreated ==
  /\ lastOp.op = "newFolder"
  /\ lastOp.outcome = "ok"
  /\ Len(files) = Len(pre.files) + 1

\* C20 (new-folder naming): a new folder is named "Untitled Folder" when no
\* sibling in the destination has that name, otherwise "Untitled Folder k" for
\* the smallest k >= 2 no sibling has; its name is never that of a sibling.
NewFolderNaming ==
  FolderCreated =>
    LET taken == SiblingNames(pre.files, lastOp.target)
        newFolder == Last(files)
    IN  /\ newFolder.parentId = lastOp.target
        /\ newFolder.name = FirstFreeFolderName(taken)
        /\ newFolder.name \notin taken

\* A folder was created next to "Untitled Folder" and "Untitled Folder 2" and
\* was named "Untitled Folder 3".
ThirdUntitledFolder ==
  /\ FolderCreated
  /\ NumberedFolderName(1) \in SiblingNames(pre.files, lastOp.target)
  /\ NumberedFolderName(2) \in SiblingNames(pre.files, lastOp.target)
  /\ Last(files).name = NumberedFolderName(3)

\* The ids a history record carries.
RecordIds(a) ==
  IF a.type = "PASTE" THEN Ids(a.newItems)
  ELSE IF a.type = "DELETE" THEN Ids(a.files)
  ELSE IF a.type = "CREATE" THEN {a.id}
  ELSE {}

\* The ids the program has handed out so far and still knows of: those of the
\* collection and those of the items kept in the records of both stacks.
KnownIds(fs, undo, redo) ==
  Ids(fs) \cup UNION {RecordIds(undo[i]) : i \in DOMAIN undo}
          \cup UNION {RecordIds(redo[i]) : i \in DOMAIN redo}

\* One step of the clipboard rule: the clipboard changes only by a copy, to
\* the copied ids; a paste that changes the collection appends clones whose
\* ids are pairwise distinct and none of the ids known before.
ClipboardStep ==
  /\ clipboard' # clipboard =>
       /\ lastOp'.op = "copy"
       /\ clipboard' = lastOp'.ids
       /\ clipboard' # <<>>
  /\ (lastOp'.op = "paste" /\ files' # files) =>
       /\ clipboard' = clipboard
       /\ Len(files') > Len(files)
       /\ SubSeq(files', 1, Len(files)) = files
       /\ LET added == SubSeq(files', Len(files) + 1, Len(files'))
          IN  /\ Ids(added) \cap KnownIds(files, undoStack, redoStack) = {}
              /\ Cardinality(Ids(added)) = Len(added)

\* C21 (clipboard persistence): paste never changes the clipboard; each
\* successful paste after a copy adds a new set of clones with ids distinct
\* from all earlier ones; only copy replaces the clipboard content.
ClipboardPersistence == [][ClipboardStep]_vars

\* The same clipboard was pasted three times in a row, each time with success,
\* and is still what was copied.
PastedThreeTimes ==
  /\ lastOp.op = "paste" /\ lastOp.outcome = "ok"
  /\ clipboard = lastOp.ids
  /\ Len(undoStack) >= 3
  /\ \A i \in (Len(undoStack) - 2)..Len(undoStack) : undoStack[i].type = "PASTE"
  /\ \A i, j \in (Len(undoStack) - 2)..Len(undoStack) :
       i # j => RecordIds(undoStack[i]) \cap RecordIds(undoStack[j]) = {}

\* The exploration has no handler call or no fresh id left for the completion
\* of a running upload.
UploadCutShort ==
  \/ budget = 0
  \/ \E i \in DOMAIN uploads : nextId + Len(uploads[i].fileList) > MaxNew

\* C22 (upload runs to completion): an upload that passed its start checks
\* eventually reaches progress 100 and stops its timer, whatever the sizes of
\* its files.
UploadRunsToCompletion ==
  (uploads # <<>>) ~> (uploads = <<>> \/ UploadCutShort)

\* The array slots of the items the last handler call appended.
AddedIdxs == (Len(pre.files) + 1)..Len(files)

\* C23 (sibling-name uniqueness at create and paste): right after a new
\* folder, an upload or a paste, no item the operation added has the name of
\* another item with the same parentId.
AddedNamesUnique ==
  lastOp.op \in {"newFolder", "upload", "paste"} =>
    \A i \in AddedIdxs, j \in DOMAIN files :
      (j # i /\ files[j].parentId = files[i].parentId) => files[j].name # files[i].name

\* C24 (restore is undone exactly): after restore(X) of a trashed item X and
\* one undo, X is in the trash again with the trashData.originalParentId it
\* had before the restore.
RestoreUndoExact ==
  ( /\ hist.phase = "undo"
    /\ hist.k = 1
    /\ Last(hist.ops).op = "restore" )
  => \A X \in Range(Last(hist.ops).ids) :
       ( /\ Has(Last(hist.snaps), X)
         /\ Find(Last(hist.snaps), X).parentId = TRASH_ID
         /\ Find(Last(hist.snaps), X).trashData # NoTrash )
       => /\ Has(files, X)
          /\ Find(files, X).parentId = TRASH_ID
          /\ Find(files, X).trashData # NoTrash
          /\ Find(files, X).trashData[1] = Find(Last(hist.snaps), X).trashData[1]

\* The last call was a move to a folder that went through.
MoveDone ==
  /\ lastOp.op = "move"
  /\ lastOp.outcome = "ok"
  /\ lastOp.target # TRASH_ID

\* The array slots of the items the last call gave another parentId, and of
\* those it changed in any way.
ReparentedIdxs == {i \in DOMAIN pre.files : files[i].parentId # pre.files[i].parentId}

ChangedIdxs == {i \in DOMAIN pre.files : files[i] # pre.files[i]}

\* C25 (move order assignment): after a successful move every reparented item
\* is in the destination with an order above the order every item of the
\* destination had before the move, any two moved items have different
\* orders, and the position of a moved item is the supplied one, or none when
\* none was supplied.
MoveOrderAssignment ==
  MoveDone =>
    /\ Len(files) = Len(pre.files)
    /\ \A i \in ReparentedIdxs :
         /\ files[i].parentId = lastOp.target
         /\ \A j \in DOMAIN pre.files :
              pre.files[j].parentId = lastOp.target => files[i].order > pre.files[j].order
    /\ \A i, j \in ChangedIdxs : i # j => files[i].order # files[j].order
    /\ \A i \in ChangedIdxs : files[i].position = lastOp.arg

\* Two selected items were dragged together out of a folder onto the desktop,
\* which held other items already.
TwoMovedToDesktop ==
  /\ MoveDone
  /\ lastOp.target = ROOT
  /\ lastOp.arg # NoPos
  /\ Cardinality(ReparentedIdxs) = 2
  /\ \E j \in DOMAIN pre.files : pre.files[j].parentId = ROOT /\ pre.files[j].order > 0

\* C26 (upload order under interleaving): each item an upload adds has an
\* order above the order of every item that is in its destination folder at
\* the moment it is added, whatever took effect since the upload was started.
UploadOrderAboveSiblings ==
  lastOp.op = "upload" =>
    \A i \in AddedIdxs, j \in DOMAIN pre.files :
      pre.files[j].parentId = files[i].parentId => files[i].order > pre.files[j].order

\* The last call moved items to the trash: the command itself, or a drop of
\* one icon on the trash.
TrashDone ==
  /\ lastOp.outcome = "ok"
  /\ \/ lastOp.op = "trash"
     \/ lastOp.op = "move" /\ lastOp.target = TRASH_ID

\* The ids that call was given.
TrashTargets == IF lastOp.op = "trash" THEN Range(lastOp.ids) ELSE {lastOp.id}

\* C27 (move-to-trash effect and frame): move-to-trash gives each targeted
\* item the trash sentinel as parentId, no position, and its previous parentId
\* as trashData.originalParentId, leaving its other fields alone; every other
\* item, the children of a trashed folder included, is unchanged.
TrashEffectAndFrame ==
  TrashDone =>
    /\ Len(files) = Len(pre.files)
    /\ \A i \in DOMAIN pre.files :
         IF pre.files[i].id \in TrashTargets
           THEN files[i] = [pre.files[i] EXCEPT !.parentId = TRASH_ID, !.position = NoPos,
                                               !.trashData = <<pre.files[i].parentId, now>>]
           ELSE files[i] = pre.files[i]

\* A folder that had a desktop position and children was moved to the trash;
\* the children still name it as their parent.
PositionedFolderTrashed ==
  /\ TrashDone
  /\ \E i, j \in DOMAIN pre.files :
       /\ pre.files[i].id \in TrashTargets
       /\ pre.files[i].position # NoPos
       /\ files[i].parentId = TRASH_ID
       /\ pre.files[j].parentId = pre.files[i].id
       /\ pre.files[j].id \notin TrashTargets
       /\ files[j].parentId = pre.files[i].id

\* Move-to-trash was called with at least one item the actor may not touch.
TrashWithForbiddenTarget ==
  /\ lastOp.op = "trash" \/ (lastOp.op = "move" /\ lastOp.target = TRASH_ID)
  /\ \E i \in DOMAIN pre.files :
       pre.files[i].id \in TrashTargets /\ ~hasPermission(lastOp.user, pre.files[i])

\* C28 (move-to-trash is all-or-nothing on permission): when at least one
\* targeted item is not visible to the actor, no item is trashed and no history
\* record is pushed, even when other targeted items are visible.
TrashAllOrNothing ==
  TrashWithForbiddenTarget =>
    /\ files = pre.files
    /\ undoStack = pre.undoStack
    /\ redoStack = pre.redoStack

\* A non-administrator called move-to-trash on a selection holding one item it
\* sees and one it does not.
MixedSelectionTrashDenied ==
  /\ TrashWithForbiddenTarget
  /\ lastOp.op = "trash"
  /\ lastOp.outcome = "denied"
  /\ \E i \in DOMAIN pre.files :
       pre.files[i].id \in TrashTargets /\ hasPermission(lastOp.user, pre.files[i])

\* The last call was a restore that took effect.
RestoreDone == lastOp.op = "restore" /\ lastOp.outcome = "ok"

\* Each restored item has the parent its trashData stored, or root when none
\* was stored, and no trashData.
RestoredToStoredParent ==
  RestoreDone =>
    \A i \in DOMAIN pre.files :
      Includes(lastOp.ids, pre.files[i].id) =>
        /\ files[i].parentId = RestoreParent(pre.files[i])
        /\ files[i].trashData = NoTrash

\* Each restored item is on the desktop or inside an item of the collection.
RestoredParentExists ==
  RestoreDone =>
    \A i \in DOMAIN files :
      Includes(lastOp.ids, files[i].id) =>
        \/ files[i].parentId = ROOT
        \/ \E j \in DOMAIN files : files[j].id = files[i].parentId

\* C29 (restore destination): restore sets each targeted item's parentId to
\* its stored trashData.originalParentId, or to root when none is stored, and
\* removes trashData; after a restore the item's parentId is root or the id of
\* an item that exists in the collection.
RestoreDestination == RestoredToStoredParent /\ RestoredParentExists

\* The last call was a paste that added items.
PasteDone == lastOp.op = "paste" /\ lastOp.outcome = "ok"

\* The positions of the clipboard whose id was in the collection.
ClipIdxs == {c \in DOMAIN lastOp.ids : Has(pre.files, lastOp.ids[c])}

\* The ids of the subtree below and including an item, before the paste.
SubtreeIds(id) == DescendantsOf(pre.files, {id}, Len(pre.files))

\* The ways to name, for each added item, the item it is a clone of: every item
\* has one clone for each copied subtree it is in; a clone has no trashData
\* and the type of its original; it is the clone of a clipboard item placed in
\* the destination, or it is placed in the clone of its original's parent and
\* has its original's name.
CloneOrigins ==
  {orig \in [AddedIdxs -> DOMAIN pre.files] :
     /\ \A j \in DOMAIN pre.files :
          Cardinality({i \in AddedIdxs : orig[i] = j})
            = Cardinality({c \in ClipIdxs : pre.files[j].id \in SubtreeIds(lastOp.ids[c])})
     /\ \A i \in AddedIdxs :
          /\ files[i].type = pre.files[orig[i]].type
          /\ files[i].trashData = NoTrash
          /\ \/ /\ \E c \in ClipIdxs : lastOp.ids[c] = pre.files[orig[i]].id
                /\ files[i].parentId = lastOp.target
             \/ /\ \E k \in AddedIdxs :
                     /\ files[i].parentId = files[k].id
                     /\ pre.files[orig[k]].id = pre.files[orig[i]].parentId
                /\ files[i].name = pre.files[orig[i]].name}

\* C30 (paste clones subtrees and touches nothing else): a paste that takes
\* effect adds one clone per item of each copied subtree, the top-level clones
\* in the destination, the others in the clone of their original's parent and
\* under their original's name, none with trashData; the items that existed
\* before are unchanged, and one PASTE record listing the added items is pushed.
PasteClonesSubtrees ==
  PasteDone =>
    /\ Len(files) > Len(pre.files)
    /\ SubSeq(files, 1, Len(pre.files)) = pre.files
    /\ CloneOrigins # {}
    /\ Cardinality({i \in AddedIdxs : files[i].parentId = lastOp.target}) = Cardinality(ClipIdxs)
    /\ undoStack = Append(pre.undoStack,
                          [type |-> "PASTE",
                           newItems |-> SubSeq(files, Len(pre.files) + 1, Len(files))])

\* A folder with a folder and a file in it was pasted: three clones.
FolderSubtreePasted ==
  /\ PasteDone
  /\ Len(files) = Len(pre.files) + 3
  /\ \E i \in AddedIdxs : files[i].type = FOLDER /\ files[i].parentId = lastOp.target
  /\ \E i, k \in AddedIdxs : files[i].type # FOLDER /\ files[i].parentId = files[k].id

\* A path is the chain of a folder: it ends with the folder, each element is
\* the parent of the next, and the first element has parentId null, parentId
\* trash, or a parentId that matches no item.
IsChainOf(path, folderId) ==
  /\ path # <<>>
  /\ path[Len(path)].id = folderId
  /\ \A k \in 1..(Len(path) - 1) : path[k + 1].parentId = path[k].id
  /\ \A k \in DOMAIN path : \E i \in DOMAIN files : files[i] = path[k]
  /\ \/ path[1].parentId \in {NULL, TRASH_ID}
     \/ ~Has(files, path[1].parentId)

\* The paths of the two views that are no folder of the collection.
VirtualPaths ==
  /\ getPath(TagView) = <<>>
  /\ Len(getPath(TRASH_ID)) = 1
  /\ getPath(TRASH_ID)[1].id = TRASH_ID
  /\ \A i \in DOMAIN files : files[i] # getPath(TRASH_ID)[1]

\* The path of every folder whose walk ends is the chain of that folder.
PathOfEndingWalks ==
  /\ VirtualPaths
  /\ \A i \in DOMAIN files :
       (files[i].type = FOLDER /\ ~getPathLoops(files[i].id))
         => IsChainOf(getPath(files[i].id), files[i].id)

\* C31 (path resolution result): for every folder of the collection getPath
\* returns the chain of items that ends with the folder, each element the
\* parent of the next, the first with parentId null, trash or matching no
\* item; for the trash it returns one synthetic element and for a tag view
\* the empty list.
PathResolution ==
  /\ VirtualPaths
  /\ \A i \in DOMAIN files :
       files[i].type = FOLDER
         => ~getPathLoops(files[i].id) /\ IsChainOf(getPath(files[i].id), files[i].id)

\* C32 (tree walks terminate): in every reachable state the upward walk of
\* getPath, the ancestor walk of the cycle guard of a move and the recursive
\* subtree copy of a paste end, for every folder id and item id.
TreeWalksTerminate ==
  \A i \in DOMAIN files :
    /\ ~getPathLoops(files[i].id)
    /\ \A j \in DOMAIN files : CycleGuard(files[j].id, files[i].id) # "loop"
    /\ ~CopyOverflows(files[i].id, Len(files))

\* The conditions under which a rename goes through, on the state before it.
RenameApplies ==
  /\ Has(pre.files, lastOp.id)
  /\ Find(pre.files, lastOp.id).parentId # TRASH_ID
  /\ isFileVisible(lastOp.user, Find(pre.files, lastOp.id))
  /\ Trim(lastOp.arg) # <<>>
  /\ Trim(lastOp.arg) # Find(pre.files, lastOp.id).name

\* C33 (rename effect and frame): a rename changes the collection only when
\* the target exists, is not in the trash, is visible to the actor and the
\* trimmed new name is non-empty and differs from the current name; it then
\* sets the target's name to the trimmed name and its dateModified, changes no
\* other field and no other item, and pushes one RENAME record holding the old
\* and the new name.
RenameEffectAndFrame ==
  lastOp.op = "rename" =>
    IF RenameApplies
      THEN /\ Len(files) = Len(pre.files)
           /\ \A i \in DOMAIN pre.files :
                files[i] = IF pre.files[i].id = lastOp.id
                             THEN [pre.files[i] EXCEPT !.name = Trim(lastOp.arg),
                                                       !.dateModified = now]
                             ELSE pre.files[i]
           /\ undoStack = Append(pre.undoStack,
                                 [type |-> "RENAME", id |-> lastOp.id,
                                  oldName |-> Find(pre.files, lastOp.id).name,
                                  newName |-> Trim(lastOp.arg)])
      ELSE /\ files = pre.files
           /\ undoStack = pre.undoStack
           /\ redoStack = pre.redoStack

\* A name typed with a blank in front was given to an item, without the blank.
RenamedToTrimmedName ==
  /\ lastOp.op = "rename"
  /\ RenameApplies
  /\ Trim(lastOp.arg) # lastOp.arg
  /\ Find(files, lastOp.id).name = Trim(lastOp.arg)

\* The last call was a swap of two different items that exist and that the
\* actor sees.
SwapOfVisibleItems ==
  /\ lastOp.op = "swap"
  /\ lastOp.id # lastOp.target
  /\ Has(pre.files, lastOp.id) /\ Has(pre.files, lastOp.target)
  /\ isFileVisible(lastOp.user, Find(pre.files, lastOp.id))
  /\ isFileVisible(lastOp.user, Find(pre.files, lastOp.target))

\* The swap gave each of the two items the order the other had and left every
\* other field and item as it was.
OrdersExchanged ==
  SwapOfVisibleItems =>
    /\ Len(files) = Len(pre.files)
    /\ \A i \in DOMAIN pre.files :
         files[i] = IF pre.files[i].id = lastOp.id
                      THEN [pre.files[i] EXCEPT !.order = Find(pre.files, lastOp.target).order]
                    ELSE IF pre.files[i].id = lastOp.target
                      THEN [pre.files[i] EXCEPT !.order = Find(pre.files, lastOp.id).order]
                    ELSE pre.files[i]

\* The last two commits were the same swap.
SwappedTwice ==
  /\ hist.phase = "cmd"
  /\ Len(hist.ops) >= 2
  /\ hist.ops[Len(hist.ops)].op = "swap"
  /\ hist.ops[Len(hist.ops) - 1].op = "swap"
  /\ hist.ops[Len(hist.ops)].id = hist.ops[Len(hist.ops) - 1].id
  /\ hist.ops[Len(hist.ops)].target = hist.ops[Len(hist.ops) - 1].target

\* After the same swap twice the collection is what it was before the first.
DoubleSwapRestores ==
  SwappedTwice => files = hist.snaps[Len(hist.ops) - 1]

\* C34 (swap-order exchange): a swap of two existing visible items a and b
\* sets a.order to b's former order and b.order to a's former order and
\* changes nothing else; the same swap applied twice restores both orders.
SwapExchange == OrdersExchanged /\ DoubleSwapRestores

\* Two items with different orders were swapped twice in a row.
SwappedTwiceDifferentOrders ==
  /\ SwappedTwice
  /\ Find(files, lastOp.id).order # Find(files, lastOp.target).order
  /\ Find(pre.files, lastOp.id).order = Find(files, lastOp.target).order

\* C35 (no position in trash): in every reachable state every item whose
\* parentId is the trash sentinel has no explicit position, also after the redo
\* of a trash action and the undo of a restore action.
NoPositionInTrash ==
  \A i \in DOMAIN files : files[i].parentId = TRASH_ID => files[i].position = NoPos

\* The step is a call of toggle-visibility or update-visibility.
VisibilityCall(op) ==
  /\ lastOp'.op = op
  /\ lastOp' # lastOp \/ files' # files

\* The items a toggle on an icon acts on: the selection when the icon is part
\* of it, the icon alone otherwise.
ToggleTargets(id) ==
  IF id \in Range(selectedFileIds) THEN Range(selectedFileIds) ELSE {id}

\* A visibility command of a user who is no administrator changes no item; a
\* toggle of an administrator flips the role on each target and changes no
\* other field and no other item.
VisibilityStep ==
  /\ ( (VisibilityCall("toggleVisibility") \/ VisibilityCall("updateVisibility"))
       /\ currentUser # ADMIN )
       => files' = files
  /\ (VisibilityCall("toggleVisibility") /\ currentUser = ADMIN) =>
       /\ Len(files') = Len(files)
       /\ \A i \in DOMAIN files :
            files'[i] = IF files[i].id \in ToggleTargets(lastOp'.id)
                          THEN [files[i] EXCEPT !.visibleTo =
                                  IF lastOp'.target \in files[i].visibleTo
                                    THEN files[i].visibleTo \ {lastOp'.target}
                                    ELSE files[i].visibleTo \cup {lastOp'.target}]
                          ELSE files[i]

\* C36 (visibility changes are admin-only): toggle-visibility and
\* update-visibility issued by a user who is no ADMIN leave every visibleTo
\* unchanged; issued by an ADMIN, a toggle of one role on an item, or on the
\* whole selection when the item is part of it, adds the role where it is
\* absent, removes it where it is present, and changes no other field.
VisibilityAdminOnly == [][VisibilityStep]_vars

\* An administrator toggled a role on a selection of two items, one of which
\* gained the role while the other lost it.
BatchToggleBothWays ==
  /\ lastOp.op = "toggleVisibility" /\ lastOp.user = ADMIN
  /\ \E i, j \in DOMAIN pre.files :
       /\ i # j
       /\ {pre.files[i].id, pre.files[j].id} \subseteq Range(lastOp.ids)
       /\ lastOp.target \in files[i].visibleTo \ pre.files[i].visibleTo
       /\ lastOp.target \in pre.files[j].visibleTo \ files[j].visibleTo

\* A user who is no administrator issued a visibility command.
VisibilityCommandDenied ==
  /\ lastOp.op \in {"toggleVisibility", "updateVisibility"}
  /\ lastOp.user \in {USER, JUNIOR}
  /\ lastOp.outcome = "denied"

\* The step is a call of one of the named commands.
CalledOneOf(ops) ==
  /\ lastOp'.op \in ops
  /\ lastOp' # lastOp \/ files' # files \/ clipboard' # clipboard

\* The step opens another folder or view: its path is resolved and its
\* content listed.
ViewResolved == currentFolderId' # currentFolderId

\* Copy, download, path resolution, listing, toggle-visibility and update-tags
\* leave both stacks as they are; the first four leave the collection too.
HistoryFreeStep ==
  /\ (CalledOneOf({"copy", "download", "toggleVisibility", "updateTags"}) \/ ViewResolved)
       => undoStack' = undoStack /\ redoStack' = redoStack
  /\ (CalledOneOf({"copy", "download"}) \/ ViewResolved) => files' = files

\* C37 (operations outside the history): copy, download, path resolution,
\* listing, toggle-visibility and update-tags never change the undo stack or
\* the redo stack; copy, download, path resolution and listing never change the
\* collection either.
OutsideTheHistory == [][HistoryFreeStep]_vars

\* Tags or visibility of an item were changed while both stacks held records,
\* and both stacks are as they were.
ChangedBesideFullStacks ==
  /\ lastOp.op \in {"toggleVisibility", "updateTags"}
  /\ files # pre.files
  /\ undoStack # <<>> /\ redoStack # <<>>
  /\ undoStack = pre.undoStack /\ redoStack = pre.redoStack

\* C38 (parent reference integrity): in every reachable state each item's
\* parentId is null, the root id, the trash sentinel, or the id of a folder
\* item present in the collection.
ParentIntegrity ==
  \A i \in DOMAIN files :
    \/ files[i].parentId \in {NULL, ROOT, TRASH_ID}
    \/ \E j \in DOMAIN files : files[j].id = files[i].parentId /\ files[j].type = FOLDER

\* Every item that was outside the trash before the last call is in the
\* collection as it was.
OutsideTrashUntouched ==
  /\ Len(files) >= Cardinality({i \in DOMAIN pre.files : pre.files[i].parentId # TRASH_ID})
  /\ \A i \in DOMAIN pre.files :
       pre.files[i].parentId # TRASH_ID => \E j \in DOMAIN files : files[j] = pre.files[i]

\* C39 (trash-only commands stay in the trash): restore, permanent delete and
\* empty-trash change or remove only items whose parentId is the trash
\* sentinel when the command is issued; an item outside the trash that is part
\* of the selection keeps its parentId and stays in the collection.
TrashCommandsStayInTrash ==
  lastOp.op \in {"restore", "delete", "emptyTrash"} => OutsideTrashUntouched

\* The same for empty-trash and for the commands issued on one trashed icon.
TrashCommandsOnTrashedIcons ==
  ( \/ lastOp.op = "emptyTrash"
    \/ /\ lastOp.op \in {"restore", "delete"}
       /\ \A i \in DOMAIN pre.files :
            Includes(lastOp.ids, pre.files[i].id) => pre.files[i].parentId = TRASH_ID )
  => OutsideTrashUntouched

====
